---- MODULE Spec2Model ----
(***************************************************************************)
(* A model of eventio/simtel/objects.py: the simtel_array EventIO object   *)
(* types.  One object is followed through its life: a header arrives, the  *)
(* class's __init__ builds the object (or raises), a caller may read from  *)
(* the object's payload view, and parse_data_field decodes the payload     *)
(* (or raises).  Payloads are sequences of bytes; every read decodes       *)
(* little-endian bytes at the object's cursor and advances it.             *)
(*                                                                         *)
(* TLC integers are 32-bit signed.  Header ids are therefore drawn below   *)
(* 2^31, and a 32-bit float or a timestamp word is kept as its four        *)
(* payload bytes instead of being turned into a number.                    *)
(***************************************************************************)
EXTENDS Integers, Sequences, FiniteSets, TLC

VARIABLES
    cls,      \* the class the dispatcher chose for the header
    header,   \* [type, version, id]: the object header
    payload,  \* the bytes of the payload view
    cursor,   \* the view's cursor, relative to the payload start
    phase,    \* "telid" | "header" | "object" | "no_object" | "parsed" | "raised"
              \* | "start" | "stopped" (the walker before the first and after the last object)
    error,    \* the kind of the exception raised, "none" when none was
    obj,      \* the attributes __init__ set on the object
    result,   \* what parse_data_field returned
    arg,      \* the telescope id a type code is built from, -1 when unused
    stream,   \* the objects of the byte source, in stream order
    position, \* the absolute position of the byte source
    payload_offset  \* header.payload_offset: where the payload starts in the source

vars == <<cls, header, payload, cursor, phase, error, obj, result, arg,
          stream, position, payload_offset>>

(***************************************************************************)
(* Bounds of the model.                                                    *)
(***************************************************************************)
MaxTelId == 9999
MaxF32 == 4
MaxRead == 2

(***************************************************************************)
(* Integer bit operations on naturals.                                     *)
(***************************************************************************)
RECURSIVE BitAnd(_, _)
BitAnd(a, b) ==
    IF a = 0 \/ b = 0 THEN 0
    ELSE (a % 2) * (b % 2) + 2 * BitAnd(a \div 2, b \div 2)

RECURSIVE BitOr(_, _)
BitOr(a, b) ==
    IF a = 0 THEN b
    ELSE IF b = 0 THEN a
    ELSE (IF a % 2 = 1 \/ b % 2 = 1 THEN 1 ELSE 0) + 2 * BitOr(a \div 2, b \div 2)

RECURSIVE Pow2(_)
Pow2(n) == IF n = 0 THEN 1 ELSE 2 * Pow2(n - 1)

ShiftRight(a, n) == a \div Pow2(n)

\* bool_bit_from_pos(mask, pos): whether bit pos of mask is set
bool_bit_from_pos(mask, pos) == ShiftRight(mask, pos) % 2 = 1

(***************************************************************************)
(* The payload view and the primitive reads (eventio.tools).  A view       *)
(* f = [buf, pos, err] is the object seen as a file: its bytes, its cursor *)
(* and the exception raised so far.  Every read takes a view and returns   *)
(* the view after the read with the value read in val and the Python type  *)
(* of that value in ty ("tuple" for struct.unpack's result, "int",         *)
(* "array", ...); a read on a view that already raised changes nothing.    *)
(***************************************************************************)
NoRecord == [n \in {} |-> 0]

View(buf, pos) ==
    [buf |-> buf, pos |-> pos, err |-> "none", val |-> <<>>, ty |-> "none"]

Raise(f, kind) ==
    [buf |-> f.buf, pos |-> f.pos, err |-> kind, val |-> <<>>, ty |-> "none"]

Got(f, n, val, ty) ==
    [buf |-> f.buf, pos |-> f.pos + n, err |-> "none", val |-> val, ty |-> ty]

Ok(f) == f.err = "none"

\* EventIOObject.seek(offset): relative to the payload start
seek(f, offset) == [f EXCEPT !.pos = offset]

ItemSize(fmt) ==
    CASE fmt = "B" -> 1
      [] fmt = "h" -> 2
      [] fmt = "H" -> 2
      [] fmt = "i" -> 4
      [] fmt = "l" -> 4
      [] fmt = "f" -> 4

U16(b) == b[1] + 256 * b[2]

I16(b) == IF U16(b) >= 32768 THEN U16(b) - 65536 ELSE U16(b)

I32(b) ==
    b[1] + 256 * b[2] + 65536 * b[3]
    + 16777216 * (IF b[4] >= 128 THEN b[4] - 256 ELSE b[4])

\* the value of the little-endian bytes b read as fmt; a float stays its bytes
Decode(fmt, b) ==
    CASE fmt = "B" -> b[1]
      [] fmt = "h" -> I16(b)
      [] fmt = "H" -> U16(b)
      [] fmt = "i" -> I32(b)
      [] fmt = "l" -> I32(b)
      [] fmt = "f" -> b

BytesAt(buf, pos, n) == [i \in 1..n |-> buf[pos + i]]

RECURSIVE CalcSize(_)
CalcSize(fmts) ==
    IF fmts = <<>> THEN 0 ELSE ItemSize(Head(fmts)) + CalcSize(Tail(fmts))

RECURSIVE Unpack(_, _, _)
Unpack(fmts, buf, pos) ==
    IF fmts = <<>> THEN <<>>
    ELSE <<Decode(Head(fmts), BytesAt(buf, pos, ItemSize(Head(fmts))))>>
         \o Unpack(Tail(fmts), buf, pos + ItemSize(Head(fmts)))

\* read_from(fmt, f): struct.unpack of the next calcsize(fmt) bytes; the
\* value is a tuple with one entry per format character
read_from(fmts, f) ==
    IF ~Ok(f) THEN f
    ELSE IF f.pos + CalcSize(fmts) > Len(f.buf)
    THEN Raise(f, "UnexpectedEndOfStream")
    ELSE Got(f, CalcSize(fmts), Unpack(fmts, f.buf, f.pos), "tuple")

\* value[0], or the target list of "x, = value": the one item of a tuple
item0(r) ==
    IF ~Ok(r) THEN r
    ELSE IF r.ty # "tuple" THEN Raise(r, "TypeError")
    ELSE Got(r, 0, r.val[1], "int")

\* read_array(f, dtype, count) for a scalar dtype: count items of the type
read_array(f, fmt, count) ==
    IF ~Ok(f) THEN f
    ELSE IF count < 0 THEN Raise(f, "ValueError")
    ELSE IF count > (Len(f.buf) - f.pos) \div ItemSize(fmt)
    THEN Raise(f, "OversizedArray")
    ELSE Got(f, count * ItemSize(fmt),
             [i \in 1..count |->
                Decode(fmt, BytesAt(f.buf, f.pos + (i - 1) * ItemSize(fmt),
                                    ItemSize(fmt)))],
             "array")

\* read_array with the count held by an earlier read c: a count that is not
\* an integer cannot size the read
read_array_counted(f, fmt, c) ==
    IF ~Ok(f) THEN f
    ELSE IF c.ty # "int" THEN Raise(f, "TypeError")
    ELSE read_array(f, fmt, c.val)

\* read_time(f): two 32-bit words, seconds and nanoseconds
read_time(f) ==
    IF ~Ok(f) THEN f
    ELSE IF f.pos + 8 > Len(f.buf) THEN Raise(f, "UnexpectedEndOfStream")
    ELSE Got(f, 8, <<BytesAt(f.buf, f.pos, 4), BytesAt(f.buf, f.pos + 4, 4)>>, "time")

\* read_array(f, dtype, count) for a structured dtype dt, a list of
\* <<name, format>>: count records, each with the fields of dt in order
RECURSIVE DtypeSize(_)
DtypeSize(dt) ==
    IF dt = <<>> THEN 0 ELSE ItemSize(Head(dt)[2]) + DtypeSize(Tail(dt))

FieldOffset(dt, k) == DtypeSize(SubSeq(dt, 1, k - 1))

StructAt(dt, buf, pos) ==
    [n \in {dt[k][1] : k \in 1..Len(dt)} |->
        LET k == CHOOSE j \in 1..Len(dt) : dt[j][1] = n
        IN Decode(dt[k][2], BytesAt(buf, pos + FieldOffset(dt, k), ItemSize(dt[k][2])))]

read_struct_array(f, dt, count) ==
    IF ~Ok(f) THEN f
    ELSE IF f.pos + count * DtypeSize(dt) > Len(f.buf)
    THEN Raise(f, "OversizedArray")
    ELSE Got(f, count * DtypeSize(dt),
             [i \in 1..count |-> StructAt(dt, f.buf, f.pos + (i - 1) * DtypeSize(dt))],
             "array")

\* read_utf8_like_signed_int(f): the variable-length signed integer
\* ("scount"): bytes are read while their high bit is set, their low 7 bits
\* are joined little-endian into u, and u is mapped to (u >> 1) ^ -(u & 1)
RECURSIVE ScountBytes(_, _)
ScountBytes(buf, pos) ==
    IF pos >= Len(buf) THEN 0
    ELSE IF buf[pos + 1] < 128 THEN 1
    ELSE LET rest == ScountBytes(buf, pos + 1)
         IN IF rest = 0 THEN 0 ELSE 1 + rest

RECURSIVE ScountUnsigned(_, _, _)
ScountUnsigned(buf, pos, n) ==
    IF n = 0 THEN 0
    ELSE (buf[pos + 1] % 128) + 128 * ScountUnsigned(buf, pos + 1, n - 1)

ZigZag(u) == IF u % 2 = 0 THEN u \div 2 ELSE -((u + 1) \div 2)

read_utf8_like_signed_int(f) ==
    IF ~Ok(f) THEN f
    ELSE LET n == ScountBytes(f.buf, f.pos)
         IN IF n = 0 THEN Raise(f, "CorruptEncoding")
            ELSE Got(f, n, ZigZag(ScountUnsigned(f.buf, f.pos, n)), "int")

\* the samples of a block of scount differences: each is the running sum of
\* the differences before it, stored as u16
RECURSIVE DifferentialSamples(_, _, _)
DifferentialSamples(f, n, prev) ==
    IF n = 0 \/ ~Ok(f) THEN [f EXCEPT !.val = <<>>]
    ELSE LET d == read_utf8_like_signed_int(f)
         IN IF ~Ok(d) THEN d
            ELSE LET cur == prev + d.val
                     rest == DifferentialSamples(d, n - 1, cur)
                 IN IF ~Ok(rest) THEN rest
                    ELSE [rest EXCEPT !.val = <<cur % 65536>> \o rest.val]

\* the reference path: one scount is read through the view per sample;
\* prev = 0, then cur = prev + delta, emit cur as u16, prev = cur
RECURSIVE read_vector_of_uint32_scount_differential_loop(_, _, _, _)
read_vector_of_uint32_scount_differential_loop(f, n, prev, out) ==
    IF ~Ok(f) THEN f
    ELSE IF n = 0 THEN Got(f, 0, out, "array")
    ELSE LET d == read_utf8_like_signed_int(f)
         IN IF ~Ok(d) THEN d
            ELSE read_vector_of_uint32_scount_differential_loop(
                     d, n - 1, prev + d.val, Append(out, (prev + d.val) % 65536))

read_vector_of_uint32_scount_differential(f, n) ==
    LET r == read_vector_of_uint32_scount_differential_loop(f, n, 0, <<>>)
    IN IF ~Ok(r) THEN r ELSE [r EXCEPT !.val = [j \in 0..(n - 1) |-> r.val[j + 1]]]

\* a plausible slip: the cursor stays at the end of the block that was read
read_vector_of_uint32_scount_differential_block_end(f, n) ==
    IF ~Ok(f) THEN f
    ELSE LET block == View(BytesAt(f.buf, f.pos, Len(f.buf) - f.pos), 0)
             r == DifferentialSamples(block, n, 0)
         IN IF ~Ok(r) THEN Raise(f, r.err)
            ELSE Got(f, Len(block.buf), [j \in 0..(n - 1) |-> r.val[j + 1]], "array")

\* the optimized path: the rest of the payload is read as one block, the n
\* samples are decoded from the block, and the cursor is put after the bytes
\* they took
read_vector_of_uint32_scount_differential_optimized(f, n) ==
    IF ~Ok(f) THEN f
    ELSE LET block == View(BytesAt(f.buf, f.pos, Len(f.buf) - f.pos), 0)
             r == DifferentialSamples(block, n, 0)
         IN IF ~Ok(r) THEN Raise(f, r.err)
            ELSE Got(f, r.pos, [j \in 0..(n - 1) |-> r.val[j + 1]], "array")

\* a plausible slip: a gate that lets newer versions through
assert_exact_version_at_least(f, version, supported_version) ==
    IF Ok(f) /\ version < supported_version THEN Raise(f, "UnsupportedVersion") ELSE f

\* assert_exact_version(self, supported_version)
assert_exact_version(f, version, supported_version) ==
    IF Ok(f) /\ version # supported_version THEN Raise(f, "UnsupportedVersion") ELSE f

\* range(start, stop) as the sequence of its values
range(start, stop) ==
    IF stop > start THEN [i \in 1..(stop - start) |-> start + i - 1] ELSE <<>>

\* np.zeros((num_gains, num_pixels, num_samples), dtype='u2'), indexed from 0
np_zeros(f, num_gains, num_pixels, num_samples) ==
    IF ~Ok(f) THEN f
    ELSE IF num_gains < 0 \/ num_pixels < 0 \/ num_samples < 0 THEN Raise(f, "ValueError")
    ELSE [f EXCEPT !.val = [g \in 0..(num_gains - 1) |->
                              [p \in 0..(num_pixels - 1) |->
                                 [j \in 0..(num_samples - 1) |-> 0]]]]

(***************************************************************************)
(* SimTelTrackEvent and SimTelTelEvent: the telescope id is part of the    *)
(* type code.                                                              *)
(***************************************************************************)
\* a plausible slip: the mask 0x7f000000 instead of 0x3f000000
id_to_telid_wide_mask(eventio_id) ==
    BitOr(BitAnd(eventio_id, 255), ShiftRight(BitAnd(eventio_id, 2130706432), 16))

id_to_telid(eventio_id) ==
    BitOr(BitAnd(eventio_id, 255), ShiftRight(BitAnd(eventio_id, 1056964608), 16))

TrackEvent_type_to_telid(eventio_type) ==
    LET base == eventio_type - 2100
    IN 100 * (base \div 1000) + (base % 1000)

\* a plausible slip: the hundreds of the telescope id counted in 100s
TrackEvent_telid_to_type_hundreds(telescope_id) ==
    2100 + (telescope_id % 100) + 100 * (telescope_id \div 100)

TrackEvent_telid_to_type(telescope_id) ==
    2100 + (telescope_id % 100) + 1000 * (telescope_id \div 100)

TelEvent_type_to_telid(eventio_type) ==
    LET base == eventio_type - 2200
    IN 100 * (base \div 1000) + (base % 1000)

TelEvent_telid_to_type(telescope_id) ==
    2200 + (telescope_id % 100) + 1000 * (telescope_id \div 100)

\* a caller builds the type code of telescope arg
telid_to_type ==
    /\ phase = "telid"
    /\ header' = [header EXCEPT !.type =
                    IF cls = "SimTelTrackEvent" THEN TrackEvent_telid_to_type(arg)
                    ELSE TelEvent_telid_to_type(arg)]
    /\ phase' = "header"
    /\ UNCHANGED <<cls, payload, cursor, error, obj, result, arg, stream, position, payload_offset>>

SimTelTrackEvent_init ==
    /\ phase = "header"
    /\ cls = "SimTelTrackEvent"
    /\ LET telescope_id == TrackEvent_type_to_telid(header.type)
       IN IF ~(id_to_telid(header.id) = telescope_id)
          THEN /\ phase' = "no_object"
               /\ error' = "TelescopeIdMismatch"
               /\ obj' = NoRecord
          ELSE /\ phase' = "object"
               /\ error' = "none"
               /\ obj' = [telescope_id |-> telescope_id,
                          has_raw |-> BitAnd(header.id, 256) # 0,
                          has_cor |-> BitAnd(header.id, 512) # 0]
    /\ UNCHANGED <<cls, header, payload, cursor, result, arg, stream, position, payload_offset>>

SimTelTelEvent_init ==
    /\ phase = "header"
    /\ cls = "SimTelTelEvent"
    /\ phase' = "object"
    /\ obj' = [telescope_id |-> TelEvent_type_to_telid(header.type),
               global_count |-> header.id]
    /\ UNCHANGED <<cls, header, payload, cursor, error, result, arg, stream, position, payload_offset>>

\* a plausible slip: the corrected pair read before the raw pair
TrackEvent_dtype_cor_first(has_raw, has_cor) ==
    (IF has_cor THEN <<<<"azimuth_cor", "f">>, <<"altitude_cor", "f">>>> ELSE <<>>)
    \o (IF has_raw THEN <<<<"azimuth_raw", "f">>, <<"altitude_raw", "f">>>> ELSE <<>>)

TrackEvent_dtype(has_raw, has_cor) ==
    (IF has_raw THEN <<<<"azimuth_raw", "f">>, <<"altitude_raw", "f">>>> ELSE <<>>)
    \o (IF has_cor THEN <<<<"azimuth_cor", "f">>, <<"altitude_cor", "f">>>> ELSE <<>>)

TrackEvent_parse(self, f) ==
    LET dt == TrackEvent_dtype(self.has_raw, self.has_cor)
        r == read_struct_array(f, dt, 1)
    IN IF Ok(r) THEN [r EXCEPT !.val = r.val[1]] ELSE r

\* the step every parse_data_field action ends with: the record is returned
\* or the exception leaves the call
Return(r) ==
    /\ cursor' = r.pos
    /\ error' = r.err
    /\ phase' = IF Ok(r) THEN "parsed" ELSE "raised"
    /\ result' = IF Ok(r) THEN r.val ELSE NoRecord
    /\ position' = payload_offset + r.pos
    /\ UNCHANGED <<cls, header, payload, obj, arg, stream, payload_offset>>

SimTelTrackEvent_parse_data_field ==
    /\ phase \in {"object", "parsed"}
    /\ cls = "SimTelTrackEvent"
    /\ Return(TrackEvent_parse(obj, View(payload, cursor)))

\* EventIOObject.read(n): a caller reads n bytes of the payload itself
read ==
    /\ phase \in {"object", "parsed"}
    /\ \E n \in 1..MaxRead :
          /\ cursor + n <= Len(payload)
          /\ cursor' = cursor + n
          /\ position' = payload_offset + cursor + n
    /\ UNCHANGED <<cls, header, payload, phase, error, obj, result, arg, stream, payload_offset>>

(***************************************************************************)
(* The objects followed in SpecTrack.                                      *)
(***************************************************************************)
Header(type, version, id) == [type |-> type, version |-> version, id |-> id]

\* the header id that carries telescope id t in the bits id_to_telid reads
IdOfTelescope(t) == (t % 256) + 16777216 * (t \div 256)

F32Values == {<<0, 0, 192, 63>>, <<0, 0, 32, 64>>}

RECURSIVE Flatten(_)
Flatten(ss) == IF ss = <<>> THEN <<>> ELSE Head(ss) \o Flatten(Tail(ss))

F32Payloads == {Flatten(s) : s \in UNION {[1..n -> F32Values] : n \in 0..MaxF32}}

TrackTypes == {2100, 2101, 2105, 3105, 4161}

TrackIds ==
    {low + flags + 16777216 * hi + junk :
        low \in {0, 1, 5, 105}, flags \in {0, 256, 512, 768},
        hi \in {0, 1}, junk \in {0, 1024, 1073741824}}

InitTelId ==
    /\ cls \in {"SimTelTrackEvent", "SimTelTelEvent"}
    /\ arg \in 0..MaxTelId
    /\ header = Header(0, 0, IdOfTelescope(arg))
    /\ payload = <<>>
    /\ phase = "telid"

InitTrackObject ==
    /\ cls = "SimTelTrackEvent"
    /\ arg = -1
    /\ header \in {Header(t, 0, i) : t \in TrackTypes, i \in TrackIds}
    /\ payload \in F32Payloads
    /\ phase = "header"

InitTrack ==
    /\ stream = <<>>
    /\ position = 0
    /\ payload_offset = 0
    /\ InitTelId \/ InitTrackObject
    /\ cursor = 0
    /\ error = "none"
    /\ obj = NoRecord
    /\ result = NoRecord

NextTrack ==
    \/ telid_to_type
    \/ SimTelTrackEvent_init
    \/ SimTelTelEvent_init
    \/ SimTelTrackEvent_parse_data_field
    \/ read

SpecTrack == InitTrack /\ [][NextTrack]_vars

(***************************************************************************)
(* Claims checked under SpecTrack.                                         *)
(***************************************************************************)
\* C2: for every telescope id t in 0..MaxTelId and both families (TrackEvent,
\* base 2100; TelEvent, base 2200), the type code built from t by
\* telid_to_type is turned back into t by type_to_telid, and the object built
\* from that type code carries telescope_id = t.
C2_TypeRoundTrip ==
    (arg >= 0 /\ phase # "telid") =>
        /\ cls = "SimTelTrackEvent" => TrackEvent_type_to_telid(header.type) = arg
        /\ cls = "SimTelTelEvent" => TelEvent_type_to_telid(header.type) = arg
        /\ phase = "object" => obj.telescope_id = arg

C2_Witness ==
    /\ arg = 9999
    /\ cls = "SimTelTrackEvent"
    /\ header.type = 101199
    /\ phase = "object"
    /\ obj.telescope_id = 9999

\* the telescope id in the bits of a header id, by arithmetic
C3_IdTelescope(id) == (id % 256) + 256 * ((id \div 16777216) % 64)

C3_TypeTelescope(type) == ((type - 2100) % 1000) + 100 * ((type - 2100) \div 1000)

\* C3: a TrackEvent object exists only if the telescope id in header.id,
\* (id & 0xff) | ((id & 0x3f000000) >> 16), equals the one in header.type;
\* whenever they differ __init__ raised TelescopeIdMismatch, there is no
\* object and no record was returned.
C3_MismatchRaises ==
    (cls = "SimTelTrackEvent" /\ phase \notin {"telid", "header"}) =>
        IF C3_IdTelescope(header.id) = C3_TypeTelescope(header.type)
        THEN phase \in {"object", "parsed", "raised"} /\ error # "TelescopeIdMismatch"
        ELSE phase = "no_object" /\ error = "TelescopeIdMismatch" /\ result = NoRecord

C3_Witness ==
    /\ cls = "SimTelTrackEvent"
    /\ header.type = 2105
    /\ header.id = 1073742081
    /\ phase = "no_object"
    /\ error = "TelescopeIdMismatch"

C10_Flag(id, bit) == (id \div bit) % 2 = 1

C10_Names(id) ==
    (IF C10_Flag(id, 256) THEN <<"azimuth_raw", "altitude_raw">> ELSE <<>>)
    \o (IF C10_Flag(id, 512) THEN <<"azimuth_cor", "altitude_cor">> ELSE <<>>)

\* C10: has_raw and has_cor are bits 0x100 and 0x200 of header.id; a call of
\* parse_data_field with 8 * (has_raw + has_cor) bytes left returns a record
\* holding exactly the pairs whose flag is set, read as consecutive 4-byte
\* floats in the order az_raw, alt_raw, az_cor, alt_cor from the cursor, and
\* moves the cursor by exactly that many bytes; with neither flag set it
\* returns the empty record and reads nothing.
C10_TrackEventFields ==
    [][SimTelTrackEvent_parse_data_field =>
        LET names == C10_Names(header.id)
        IN /\ obj.has_raw = C10_Flag(header.id, 256)
           /\ obj.has_cor = C10_Flag(header.id, 512)
           /\ (cursor + 4 * Len(names) <= Len(payload)) <=> (phase' = "parsed")
           /\ phase' = "parsed" =>
                /\ cursor' = cursor + 8 * ((IF obj.has_raw THEN 1 ELSE 0)
                                           + (IF obj.has_cor THEN 1 ELSE 0))
                /\ DOMAIN result' = {names[k] : k \in 1..Len(names)}
                /\ \A k \in 1..Len(names) :
                      result'[names[k]] = [i \in 1..4 |-> payload[cursor + 4 * (k - 1) + i]]
           /\ phase' = "raised" => cursor' = cursor
      ]_vars

C10_Witness ==
    /\ cls = "SimTelTrackEvent"
    /\ header.id = 769
    /\ header.type = 2101
    /\ phase = "parsed"
    /\ cursor = 16
    /\ result = [azimuth_raw |-> <<0, 0, 192, 63>>, altitude_raw |-> <<0, 0, 32, 64>>,
                 azimuth_cor |-> <<0, 0, 32, 64>>, altitude_cor |-> <<0, 0, 192, 63>>]

(***************************************************************************)
(* SimTelTelADCSamp (2013).                                                *)
(***************************************************************************)
\* a plausible slip: data_red_mode taken with the mask 0x0f
TelADCSamp_flags_narrow(flags_) ==
    [zero_sup_mode |-> BitAnd(flags_, 31),
     data_red_mode |-> BitAnd(ShiftRight(flags_, 5), 15),
     list_known |-> BitAnd(ShiftRight(flags_, 10), 1) # 0,
     telescope_id |-> BitAnd(ShiftRight(flags_, 12), 65535)]

TelADCSamp_flags(flags_) ==
    [zero_sup_mode |-> BitAnd(flags_, 31),
     data_red_mode |-> BitAnd(ShiftRight(flags_, 5), 31),
     list_known |-> BitAnd(ShiftRight(flags_, 10), 1) # 0,
     telescope_id |-> BitAnd(ShiftRight(flags_, 12), 65535)]

SimTelTelADCSamp_init ==
    /\ phase = "header"
    /\ cls = "SimTelTelADCSamp"
    /\ LET fl == TelADCSamp_flags(header.id)
       IN IF \/ (fl.zero_sup_mode # 0 /\ header.version < 3)
             \/ fl.data_red_mode # 0
             \/ fl.list_known
          THEN /\ phase' = "no_object"
               /\ error' = "UnsupportedCombination"
               /\ obj' = NoRecord
          ELSE /\ phase' = "object"
               /\ error' = "none"
               /\ obj' = [zero_sup_mode |-> fl.zero_sup_mode,
                          data_red_mode |-> fl.data_red_mode,
                          list_known |-> fl.list_known,
                          telescope_id |-> fl.telescope_id]
    /\ UNCHANGED <<cls, header, payload, cursor, result, arg, stream, position, payload_offset>>

\* the loop over range(list_size) that fills pixel_ranges
RECURSIVE read_pixel_ranges(_, _)
read_pixel_ranges(f, list_size) ==
    IF list_size <= 0 \/ ~Ok(f) THEN [f EXCEPT !.val = <<>>]
    ELSE LET start_pixel_id == read_utf8_like_signed_int(f)
             stop == read_utf8_like_signed_int(start_pixel_id)
             one == IF ~Ok(start_pixel_id) THEN start_pixel_id
                    ELSE IF start_pixel_id.val < 0
                    THEN [start_pixel_id EXCEPT
                            !.val = <<-start_pixel_id.val - 1, -start_pixel_id.val - 1>>]
                    ELSE IF ~Ok(stop) THEN stop
                    ELSE [stop EXCEPT !.val = <<start_pixel_id.val, stop.val>>]
             rest == read_pixel_ranges(one, list_size - 1)
         IN IF ~Ok(one) THEN one
            ELSE IF ~Ok(rest) THEN rest
            ELSE [rest EXCEPT !.val = <<one.val>> \o rest.val]

\* the pixels the loops visit, as <<i_gain, i_pix>> in the order visited:
\* for i_gain / for pixel_range in pixel_ranges / for i_pix in range(*pixel_range)
pixels_of_ranges(pixel_ranges) ==
    Flatten([k \in 1..Len(pixel_ranges) |-> range(pixel_ranges[k][1], pixel_ranges[k][2])])

\* a plausible slip: the pixel loop outside the gain loop
visits_pixel_major(num_gains, pixels) ==
    Flatten([k \in 1..Len(pixels) |-> [g \in 1..num_gains |-> <<g - 1, pixels[k]>>]])

visits(num_gains, pixels) ==
    Flatten([g \in 1..num_gains |-> [k \in 1..Len(pixels) |-> <<g - 1, pixels[k]>>]])

\* adc_samples[i_gain, i_pix, :] = read_vector...(self, num_samples), for each visit
RECURSIVE read_samples(_, _, _, _)
read_samples(f, adc_samples, todo, num_samples) ==
    IF todo = <<>> \/ ~Ok(f) THEN [f EXCEPT !.val = adc_samples]
    ELSE LET i_gain == Head(todo)[1]
             i_pix == Head(todo)[2]
             v == read_vector_of_uint32_scount_differential_optimized(f, num_samples)
         IN IF ~Ok(v) THEN v
            ELSE IF i_pix \notin DOMAIN adc_samples[i_gain] THEN Raise(v, "IndexError")
            ELSE read_samples(v, [adc_samples EXCEPT ![i_gain][i_pix] = v.val],
                              Tail(todo), num_samples)

TelADCSamp_parse_in_zero_suppressed_mode(f, num_gains, num_pixels, num_samples) ==
    LET list_size == read_utf8_like_signed_int(f)
        pixel_ranges == read_pixel_ranges(list_size, list_size.val)
        adc_samples == np_zeros(pixel_ranges, num_gains, num_pixels, num_samples)
    IN IF ~Ok(list_size) THEN list_size
       ELSE IF ~Ok(pixel_ranges) THEN pixel_ranges
       ELSE IF ~Ok(adc_samples) THEN adc_samples
       ELSE read_samples(adc_samples, adc_samples.val,
                         visits(num_gains, pixels_of_ranges(pixel_ranges.val)),
                         num_samples)

TelADCSamp_parse_in_not_zero_suppressed_mode(f, num_gains, num_pixels, num_samples) ==
    LET adc_samples == np_zeros(f, num_gains, num_pixels, num_samples)
    IN IF ~Ok(adc_samples) THEN adc_samples
       ELSE read_samples(adc_samples, adc_samples.val,
                         visits(num_gains, range(0, num_pixels)), num_samples)

TelADCSamp_parse(self, hdr, f) ==
    LET checked == assert_exact_version(seek(f, 0), hdr.version, 3)
        num_pixels == item0(read_from(<<"l">>, checked))
        num_gains == item0(read_from(<<"h">>, num_pixels))
        num_samples == item0(read_from(<<"h">>, num_gains))
    IN IF ~Ok(num_samples) THEN num_samples
       ELSE IF self.zero_sup_mode # 0
       THEN TelADCSamp_parse_in_zero_suppressed_mode(
                num_samples, num_gains.val, num_pixels.val, num_samples.val)
       ELSE TelADCSamp_parse_in_not_zero_suppressed_mode(
                num_samples, num_gains.val, num_pixels.val, num_samples.val)

SimTelTelADCSamp_parse_data_field ==
    /\ phase \in {"object", "parsed"}
    /\ cls = "SimTelTelADCSamp"
    /\ Return(TelADCSamp_parse(obj, header, View(payload, cursor)))

(***************************************************************************)
(* The objects followed in SpecADC.  A payload is written the way the      *)
(* format's writer does: the three sizes, in zero-suppressed mode the list *)
(* of pixel ranges, then one differential vector per gain and per pixel,   *)
(* the pixels of a range being start..end with both ends.                  *)
(***************************************************************************)
MaxPixels == 3
MaxGains == 2
MaxSamples == 2

LE16(v) == LET u == IF v < 0 THEN v + 65536 ELSE v IN <<u % 256, u \div 256>>

LE32(v) ==
    LET hi == (IF v < 0 THEN (v \div 16777216) + 256 ELSE v \div 16777216)
        lo == v % 16777216
    IN <<lo % 256, (lo \div 256) % 256, lo \div 65536, hi>>

EncodeScount(v) ==
    LET u == IF v >= 0 THEN 2 * v ELSE -2 * v - 1
    IN IF u < 128 THEN <<u>> ELSE <<128 + (u % 128), u \div 128>>

\* a range as the writer lists it: one pixel as -pixel-1, else start and end
EncodeRange(r) ==
    IF r[1] = r[2] THEN EncodeScount(-r[1] - 1)
    ELSE EncodeScount(r[1]) \o EncodeScount(r[2])

\* the k-th vector written (k from 0): first difference first + k, then +1, -1, ...
EncodeVector(k, num_samples, first) ==
    Flatten([j \in 1..num_samples |->
               EncodeScount(IF j = 1 THEN first + k ELSE IF j % 2 = 0 THEN 1 ELSE -1)])

InclusivePixels(ranges) ==
    Flatten([k \in 1..Len(ranges) |-> range(ranges[k][1], ranges[k][2] + 1)])

EncodeADCSamp(zero_sup, num_pixels, num_gains, num_samples, ranges, first) ==
    LET pixels == IF zero_sup THEN InclusivePixels(ranges) ELSE range(0, num_pixels)
        nvec == num_gains * Len(pixels)
    IN LE32(num_pixels) \o LE16(num_gains) \o LE16(num_samples)
       \o (IF zero_sup
           THEN EncodeScount(Len(ranges))
                \o Flatten([k \in 1..Len(ranges) |-> EncodeRange(ranges[k])])
           ELSE <<>>)
       \o Flatten([k \in 1..nvec |-> EncodeVector(k - 1, num_samples, first)])

\* lists of at most two ranges of pixels below num_pixels, in ascending order
RangeLists(num_pixels) ==
    LET R == {<<a, b>> : a \in 0..(num_pixels - 1), b \in 0..(num_pixels - 1)}
        one == {r \in R : r[1] <= r[2]}
    IN {<<>>} \cup {<<r>> : r \in one}
       \cup {rq \in one \X one : rq[2][1] > rq[1][2]}

ADCPayloads(zero_sup) ==
    UNION {{EncodeADCSamp(zero_sup, np, ng, ns, rl, first) :
               ng \in 1..MaxGains, ns \in 0..MaxSamples,
               rl \in (IF zero_sup THEN RangeLists(np) ELSE {<<>>}),
               first \in {1, 70}} : np \in 0..MaxPixels}

ADCIds ==
    {zs + 32 * dr + 1024 * lk + 2048 * unused + 4096 * tel + 268435456 * hi :
        zs \in {0, 1, 31}, dr \in {0, 1, 16}, lk \in {0, 1}, unused \in {0, 1},
        tel \in {0, 1, 65535}, hi \in {0, 1}}

\* every flag word and version, with one payload
InitADCFlags ==
    /\ header \in {Header(2013, v, i) : v \in {0, 2, 3, 4}, i \in ADCIds}
    /\ payload = EncodeADCSamp(BitAnd(header.id, 31) # 0, 2, 1, 2, <<<<0, 1>>>>, 1)

\* every payload, for telescope 1 with and without zero suppression
InitADCPayloads ==
    /\ header \in {Header(2013, 3, 4096), Header(2013, 3, 4097)}
    /\ payload \in ADCPayloads(BitAnd(header.id, 31) # 0)

InitADC ==
    /\ stream = <<>>
    /\ position = 0
    /\ payload_offset = 0
    /\ cls = "SimTelTelADCSamp"
    /\ arg = -1
    /\ InitADCFlags \/ InitADCPayloads
    /\ phase = "header"
    /\ cursor = 0
    /\ error = "none"
    /\ obj = NoRecord
    /\ result = NoRecord

NextADC ==
    \/ SimTelTelADCSamp_init
    \/ SimTelTelADCSamp_parse_data_field
    \/ read

SpecADC == InitADC /\ [][NextADC]_vars

(***************************************************************************)
(* Claims checked under SpecADC.                                           *)
(***************************************************************************)
\* the pixels of the listed ranges, both ends included, in list order
C1_Pixels(ranges) ==
    Flatten([k \in 1..Len(ranges) |->
               [i \in 1..(ranges[k][2] - ranges[k][1] + 1) |-> ranges[k][1] + i - 1]])

\* the view after k vectors of n samples have been read from f
RECURSIVE C1_AfterVectors(_, _, _)
C1_AfterVectors(f, k, n) ==
    IF k = 0 THEN f
    ELSE C1_AfterVectors(read_vector_of_uint32_scount_differential_optimized(f, n), k - 1, n)

\* C1: in zero-suppressed mode, for every gain g and every listed range
\* (start, end), the vector stored at [g][p] for each pixel p with
\* start <= p <= end is the next differential vector of the payload (a
\* negative start s listing the one pixel -s-1), so that one range (0, 1) with
\* one gain consumes exactly two vectors.
C1_RangesIncludeEnd ==
    (cls = "SimTelTelADCSamp" /\ phase = "parsed" /\ obj.zero_sup_mode # 0) =>
        LET sizes == read_from(<<"l", "h", "h">>, View(payload, 0))
            num_gains == sizes.val[2]
            num_samples == sizes.val[3]
            list_size == read_utf8_like_signed_int(sizes)
            ranges == read_pixel_ranges(list_size, list_size.val)
            pixels == C1_Pixels(ranges.val)
        IN /\ \A g \in 0..(num_gains - 1) : \A k \in 1..Len(pixels) :
                 result[g][pixels[k]] =
                    C1_AfterVectors(ranges, g * Len(pixels) + k, num_samples).val
           /\ cursor = C1_AfterVectors(ranges, num_gains * Len(pixels), num_samples).pos

\* C7: header.id is decoded as zero_sup_mode = id & 0x1f, data_red_mode =
\* (id >> 5) & 0x1f, list_known = (id >> 10) & 1, telescope_id =
\* (id >> 12) & 0xffff, and the object fails with UnsupportedCombination
\* exactly when (zero_sup_mode # 0 and version < 3) or data_red_mode # 0 or
\* list_known is set.
C7_UnsupportedCombination ==
    (cls = "SimTelTelADCSamp" /\ phase # "header") =>
        LET zs == header.id % 32
            dr == (header.id \div 32) % 32
            lk == (header.id \div 1024) % 2
            tel == (header.id \div 4096) % 65536
            unsupported == (zs # 0 /\ header.version < 3) \/ dr # 0 \/ lk = 1
        IN /\ (error = "UnsupportedCombination") <=> unsupported
           /\ (phase = "no_object") <=> unsupported
           /\ phase # "no_object" =>
                obj = [zero_sup_mode |-> zs, data_red_mode |-> dr,
                       list_known |-> (lk = 1), telescope_id |-> tel]

C7_Witness ==
    /\ cls = "SimTelTelADCSamp"
    /\ header.version = 2
    /\ header.id = 268435456 + 4096 * 65535 + 2048 + 1
    /\ phase = "no_object"
    /\ error = "UnsupportedCombination"

(***************************************************************************)
(* Construction of the classes that define no __init__ of their own.       *)
(***************************************************************************)
PlainClasses ==
    {"History", "SimTelMCRunHeader", "SimTelEvent", "SimTelTelADCSum",
     "SimTelTelImage", "SimTelShower", "SimTelPixelTiming", "SimTelPixelCalib",
     "SimTelMCShower", "SimTelMCEvent", "SimTelTelMoni", "SimTelRunStat",
     "SimTelMCRunStat", "SimTelMCPeSum", "SimTelPixelList", "SimTelCalibEvent"}

TelescopeClasses ==
    {"SimTelCamSettings", "SimTelCamOrgan", "SimTelPixelset", "SimTelPointingCor",
     "SimTelTrackSet", "SimTelTelEvtHead", "SimTelLasCal"}

\* EventIOObject.__init__(header, parent)
EventIOObject_init ==
    /\ phase = "header"
    /\ cls \in PlainClasses
    /\ phase' = "object"
    /\ obj' = NoRecord
    /\ UNCHANGED <<cls, header, payload, cursor, error, result, arg, stream, position, payload_offset>>

\* TelescopeObject.__init__, and the __init__ of SimTelPixelDisable and
\* SimTelCamsoftset, which do the same
TelescopeObject_init ==
    /\ phase = "header"
    /\ cls \in TelescopeClasses \cup {"SimTelPixelDisable", "SimTelCamsoftset"}
    /\ phase' = "object"
    /\ obj' = [telescope_id |-> header.id]
    /\ UNCHANGED <<cls, header, payload, cursor, error, result, arg, stream, position, payload_offset>>

(***************************************************************************)
(* Statements in sequence.  Python evaluates the right-hand side of an     *)
(* assignment once and binds the value: Strict(v, F) is F applied to the   *)
(* value of v.                                                             *)
(***************************************************************************)
Strict(v, F(_)) == CHOOSE r \in {F(x) : x \in {v}} : TRUE

\* [read_utf8_like_signed_int(self) for _ in range(n)]
RECURSIVE read_scounts(_, _, _)
read_scounts(f, n, got) ==
    Strict(<<f, got>>, LAMBDA s :
        IF ~Ok(s[1]) THEN s[1]
        ELSE IF n <= 0 THEN Got(s[1], 0, s[2], "array")
        ELSE Strict(read_utf8_like_signed_int(s[1]), LAMBDA one :
                IF ~Ok(one) THEN one
                ELSE read_scounts(one, n - 1, Append(s[2], one.val))))

(***************************************************************************)
(* A run of reads into named entries of a dict, one field per statement:   *)
(*   Scalar(name, fmt)      name = read_from(fmt, self)[0]                 *)
(*                          (the same value as  name, = read_from(...))    *)
(*   Tuple(name, fmt)       name = read_from(fmt, self)                    *)
(*   Time(name)             name = read_time(self)                         *)
(*   Array(name, fmt, c)    name = read_array(self, fmt, c)                *)
(*   Scount(name)           name = read_utf8_like_signed_int(self)         *)
(*   UnpackedScount(name)   name, = read_utf8_like_signed_int(self)        *)
(*   Scounts(name, c)       name = [read_utf8_like_signed_int(self)        *)
(*                                  for _ in range(c)]                     *)
(*   Unpacked(names, fmts)  names = read_from(fmts, self)                  *)
(*   Matrix(name, fmt, r, c)                                               *)
(*                          name = read_array(self, fmt, r * c)            *)
(*                                     .reshape(r, c)                      *)
(*   Raising(kind)          a statement that raises kind                   *)
(* A count c is a product of factors: N(field) the entry read before under *)
(* that name, K(n) the number n.                                           *)
(***************************************************************************)
Scalar(name, fmt) == <<name, "scalar", fmt>>
Tuple(name, fmt) == <<name, "tuple", fmt>>
Time(name) == <<name, "time">>
Array(name, fmt, count) == <<name, "array", fmt, count>>
Scount(name) == <<name, "scount">>
UnpackedScount(name) == <<name, "unpacked_scount">>
Scounts(name, count) == <<name, "scounts", "", count>>
Unpacked(names, fmts) == <<names, "unpack", fmts>>
Matrix(name, fmt, rows, cols) == <<name, "matrix", fmt, <<rows, cols>>>>
Raising(kind) == <<"", "raise", kind>>
N(name) == <<"field", name>>
K(n) == <<"const", n>>

RECURSIVE Product(_, _)
Product(rec, factors) ==
    IF factors = <<>> THEN 1
    ELSE (IF Head(factors)[1] = "field" THEN rec[Head(factors)[2]] ELSE Head(factors)[2])
         * Product(rec, Tail(factors))

\* whether a factor of the count is an entry that holds a tuple
IsTupleCount(fields, factors) ==
    \E k \in 1..Len(factors), j \in 1..Len(fields) :
        /\ factors[k][1] = "field"
        /\ fields[j][2] = "tuple"
        /\ fields[j][1] = factors[k][2]

\* array.reshape(rows, cols), indexed from 0
reshape(f, rows, cols) ==
    IF ~Ok(f) THEN f
    ELSE IF rows < 0 \/ cols < 0 \/ rows * cols # Len(f.val) THEN Raise(f, "ValueError")
    ELSE [f EXCEPT !.val = [i \in 0..(rows - 1) |->
                              [j \in 0..(cols - 1) |-> f.val[i * cols + j + 1]]]]

read_field(f, rec, fields, fd) ==
    CASE fd[2] = "scalar" -> item0(read_from(<<fd[3]>>, f))
      [] fd[2] = "tuple" -> read_from(<<fd[3]>>, f)
      [] fd[2] = "time" -> read_time(f)
      [] fd[2] = "scount" -> read_utf8_like_signed_int(f)
      [] fd[2] = "unpacked_scount" -> item0(read_utf8_like_signed_int(f))
      [] fd[2] = "array" ->
            IF IsTupleCount(fields, fd[4]) THEN Raise(f, "TypeError")
            ELSE read_array(f, fd[3], Product(rec, fd[4]))
      [] fd[2] = "scounts" ->
            IF IsTupleCount(fields, fd[4]) THEN Raise(f, "TypeError")
            ELSE read_scounts(f, Product(rec, fd[4]), <<>>)
      [] fd[2] = "unpack" -> read_from(fd[3], f)
      [] fd[2] = "matrix" ->
            reshape(read_array(f, fd[3], Product(rec, fd[4])),
                    Product(rec, <<fd[4][1]>>), Product(rec, <<fd[4][2]>>))
      [] fd[2] = "raise" -> Raise(f, fd[3])

\* the dict after the assignment of the value read for fd
bind_field(fd, val, rec) ==
    IF fd[2] = "unpack"
    THEN [n \in {fd[1][k] : k \in 1..Len(fd[1])} |->
            val[CHOOSE k \in 1..Len(fd[1]) : fd[1][k] = n]] @@ rec
    ELSE (fd[1] :> val) @@ rec

\* the statement of fields[i]: the dict f.val with the entry it assigns
read_fields_one(f, fields, i) ==
    Strict(f, LAMBDA g :
        IF ~Ok(g) THEN g
        ELSE Strict(read_field(g, g.val, fields, fields[i]), LAMBDA one :
                IF ~Ok(one) THEN one
                ELSE Got(one, 0, bind_field(fields[i], one.val, g.val), "dict")))

\* the statements of fields[lo..hi] in order: the first half, then the second
RECURSIVE read_fields_range(_, _, _, _)
read_fields_range(f, fields, lo, hi) ==
    IF lo > hi THEN f
    ELSE IF lo = hi THEN read_fields_one(f, fields, lo)
    ELSE Strict(read_fields_range(f, fields, lo, (lo + hi) \div 2), LAMBDA half :
            read_fields_range(half, fields, ((lo + hi) \div 2) + 1, hi))

\* the statements of fields, starting from the dict rec
read_fields(f, rec, fields) ==
    Strict(f, LAMBDA g :
        IF ~Ok(g) THEN g
        ELSE read_fields_range(Got(g, 0, rec, "dict"), fields, 1, Len(fields)))

\* the dict without the local variables of the parser
Without(rec, names) == [k \in DOMAIN rec \ names |-> rec[k]]

(***************************************************************************)
(* SimTelMCPeSum (2026).                                                   *)
(***************************************************************************)
\* list.append(*args): append takes exactly one argument
list_append(f, list, args) ==
    IF ~Ok(f) THEN f
    ELSE IF Len(args) # 1 THEN Raise(f, "TypeError")
    ELSE Got(f, 0, Append(list, args[1]), "list")

\* the loop over zip(num_pe, num_pixels), from telescope k on
RECURSIVE read_pix_pe(_, _, _, _, _)
read_pix_pe(f, pix_pe, num_pe, num_pixels, k) ==
    Strict(<<f, pix_pe>>, LAMBDA s :
        IF ~Ok(s[1]) THEN s[1]
        ELSE IF k > Len(num_pe) \/ k > Len(num_pixels) THEN Got(s[1], 0, s[2], "list")
        ELSE IF num_pe[k] <= 0 \/ num_pixels[k] <= 0
        THEN read_pix_pe(s[1], s[2], num_pe, num_pixels, k + 1)
        ELSE Strict(read_fields(s[1], NoRecord,
                        <<Scalar("non_empty", "h"),
                          Array("pixel_id", "h", <<N("non_empty")>>),
                          Array("pe", "i", <<N("non_empty")>>)>>), LAMBDA r :
             Strict(list_append(r, s[2], <<r.val.pixel_id, r.val.pe>>), LAMBDA appended :
                IF ~Ok(appended) THEN appended
                ELSE read_pix_pe(appended, appended.val, num_pe, num_pixels, k + 1))))

MCPeSum_parse(hdr, f) ==
    Strict(read_fields(assert_exact_version(seek(f, 0), hdr.version, 2),
                       [event |-> hdr.id],
                       <<Scalar("shower_num", "i"),
                         Scalar("num_tel", "i"),
                         Array("num_pe", "i", <<N("num_tel")>>),
                         Array("num_pixels", "i", <<N("num_tel")>>)>>), LAMBDA head :
        IF ~Ok(head) THEN head
        ELSE Strict(read_pix_pe(head, <<>>, head.val.num_pe, head.val.num_pixels, 1),
                    LAMBDA pix_pe :
                IF ~Ok(pix_pe) THEN pix_pe
                ELSE read_fields(pix_pe, [pix_pe |-> pix_pe.val] @@ head.val,
                         <<Array("photons", "f", <<N("num_tel")>>),
                           Array("photons_atm", "f", <<N("num_tel")>>),
                           Array("photons_atm_3_6", "f", <<N("num_tel")>>),
                           Array("photons_atm_qe", "f", <<N("num_tel")>>),
                           Array("photons_atm_400", "f", <<N("num_tel")>>)>>)))

SimTelMCPeSum_parse_data_field ==
    /\ phase \in {"object", "parsed"}
    /\ cls = "SimTelMCPeSum"
    /\ Return(MCPeSum_parse(header, View(payload, cursor)))

(***************************************************************************)
(* The objects followed in SpecPeSum: for each telescope a number of       *)
(* photo-electrons and of pixels, and for a telescope with both above 0    *)
(* the list of its non-empty pixels.                                       *)
(***************************************************************************)
MaxTel == 2
MaxNonEmpty == 2

Zeros(n) == [i \in 1..n |-> 0]

\* the pixel list of telescope k with n non-empty pixels
EncodePixPe(k, n) ==
    LE16(n) \o Flatten([i \in 1..n |-> LE16(10 * k + i)])
    \o Flatten([i \in 1..n |-> LE32(100 * k + i)])

EncodeMCPeSum(num_pe, num_pixels, non_empty) ==
    LET num_tel == Len(num_pe)
    IN LE32(7) \o LE32(num_tel)
       \o Flatten([k \in 1..num_tel |-> LE32(num_pe[k])])
       \o Flatten([k \in 1..num_tel |-> LE32(num_pixels[k])])
       \o Flatten([k \in 1..num_tel |->
                     IF num_pe[k] > 0 /\ num_pixels[k] > 0
                     THEN EncodePixPe(k, non_empty[k]) ELSE <<>>])
       \o Zeros(5 * 4 * num_tel)

MCPeSumPayloads ==
    UNION {{EncodeMCPeSum(pe, px, ne) :
               pe \in [1..n -> {-1, 0, 3}], px \in [1..n -> {0, 4}],
               ne \in [1..n -> 0..MaxNonEmpty]} : n \in 0..MaxTel}

InitPeSum ==
    /\ stream = <<>>
    /\ position = 0
    /\ payload_offset = 0
    /\ cls = "SimTelMCPeSum"
    /\ arg = -1
    /\ header \in {Header(2026, v, 31) : v \in {1, 2, 3}}
    /\ payload \in MCPeSumPayloads
    /\ phase = "header"
    /\ cursor = 0
    /\ error = "none"
    /\ obj = NoRecord
    /\ result = NoRecord

NextPeSum ==
    \/ EventIOObject_init
    \/ SimTelMCPeSum_parse_data_field
    \/ read

SpecPeSum == InitPeSum /\ [][NextPeSum]_vars

\* the telescopes with photo-electrons and pixels, in telescope order
RECURSIVE C4_Telescopes(_, _, _)
C4_Telescopes(num_pe, num_pixels, k) ==
    IF k > Len(num_pe) THEN <<>>
    ELSE (IF num_pe[k] > 0 /\ num_pixels[k] > 0 THEN <<k>> ELSE <<>>)
         \o C4_Telescopes(num_pe, num_pixels, k + 1)

\* C4: the MCPeSum (v2) parser returns a record whose pix_pe holds one
\* (pixel_id, pe) pair, in telescope order, for exactly the telescopes with
\* num_pe > 0 and num_pixels > 0; it does not fail when a telescope has
\* photo-electrons.
C4_PixPePairs ==
    (cls = "SimTelMCPeSum" /\ header.version = 2 /\ phase \in {"parsed", "raised"}) =>
        /\ phase = "parsed"
        /\ LET tels == C4_Telescopes(result.num_pe, result.num_pixels, 1)
           IN /\ Len(result.pix_pe) = Len(tels)
              /\ \A j \in 1..Len(tels) :
                    /\ Len(result.pix_pe[j]) = 2
                    /\ Len(result.pix_pe[j][1]) = Len(result.pix_pe[j][2])
                    /\ \A i \in 1..Len(result.pix_pe[j][1]) :
                          /\ result.pix_pe[j][1][i] = 10 * tels[j] + i
                          /\ result.pix_pe[j][2][i] = 100 * tels[j] + i

(***************************************************************************)
(* SimTelTelEvtHead (2011).                                                *)
(***************************************************************************)
\* the statements under "if t & 0x100"
TelEvtHead_trgsect(version, t) ==
    (IF version <= 1
     THEN <<Scalar("num_list_trgsect", "h"),
            Array("list_trgsect", "h", <<N("num_list_trgsect")>>)>>
     ELSE <<UnpackedScount("num_list_trgsect"),
            Scounts("list_trgsect", <<N("num_list_trgsect")>>)>>)
    \o (IF version >= 1 /\ BitAnd(t, 1024) # 0
        THEN <<Array("time_trgsect", "f", <<N("num_list_trgsect")>>)>>
        ELSE <<>>)

\* the statements under "if t & 0x200"
TelEvtHead_phys_addr(version) ==
    IF version <= 1
    THEN <<Tuple("num_phys_addr", "h"),
           Array("phys_addr", "h", <<N("num_phys_addr")>>)>>
    ELSE <<Scount("num_phys_addr"),
           Scounts("phys_addr", <<N("num_phys_addr")>>)>>

TelEvtHead_parse(hdr, f) ==
    Strict(read_fields(seek(f, 0), NoRecord,
                       <<Scalar("loc_count", "i"), Scalar("glob_count", "i"),
                         Time("cpu_time"), Time("gps_time"), Scalar("t", "h")>>),
           LAMBDA head :
        IF ~Ok(head) THEN head
        ELSE Strict(read_fields(head,
                        [trg_source |-> BitAnd(head.val.t, 255)] @@ head.val,
                        (IF BitAnd(head.val.t, 256) # 0
                         THEN TelEvtHead_trgsect(hdr.version, head.val.t) ELSE <<>>)
                        \o (IF BitAnd(head.val.t, 512) # 0
                            THEN TelEvtHead_phys_addr(hdr.version) ELSE <<>>)),
                    LAMBDA r :
                IF ~Ok(r) THEN r
                ELSE Got(r, 0, Without(r.val, {"t", "num_list_trgsect"}), "dict")))

SimTelTelEvtHead_parse_data_field ==
    /\ phase \in {"object", "parsed"}
    /\ cls = "SimTelTelEvtHead"
    /\ Return(TelEvtHead_parse(header, View(payload, cursor)))

(***************************************************************************)
(* SimTelCentEvent (2009).                                                 *)
(***************************************************************************)
SimTelCentEvent_init ==
    /\ phase = "header"
    /\ cls = "SimTelCentEvent"
    /\ IF header.version > 2
       THEN /\ phase' = "no_object"
            /\ error' = "UnsupportedVersion"
            /\ obj' = NoRecord
       ELSE /\ phase' = "object"
            /\ error' = "none"
            /\ obj' = [global_count |-> header.id]
    /\ UNCHANGED <<cls, header, payload, cursor, result, arg, stream, position, payload_offset>>

\* for trigger in range(3): if bool_bit_from_pos(mask, trigger): read a float
RECURSIVE read_times_by_type(_, _, _, _)
read_times_by_type(f, times, mask, trigger) ==
    Strict(<<f, times>>, LAMBDA s :
        IF ~Ok(s[1]) THEN s[1]
        ELSE IF trigger >= 3 THEN Got(s[1], 0, s[2], "dict")
        ELSE IF bool_bit_from_pos(mask, trigger)
        THEN Strict(item0(read_from(<<"f">>, s[1])), LAMBDA t :
                IF ~Ok(t) THEN t
                ELSE read_times_by_type(t, (trigger :> t.val) @@ s[2], mask, trigger + 1))
        ELSE read_times_by_type(s[1], s[2], mask, trigger + 1))

\* whether the telescope's times by trigger type follow in the payload
CentEvent_has_times(mask) == mask \notin {1, 2, 4}

\* for tel_id, mask in zip(triggered_telescopes, teltrg_type_mask), from k on
RECURSIVE read_teltrg_time_by_type(_, _, _, _, _)
read_teltrg_time_by_type(f, by_type, triggered_telescopes, teltrg_type_mask, k) ==
    Strict(<<f, by_type>>, LAMBDA s :
        IF ~Ok(s[1]) THEN s[1]
        ELSE IF k > Len(triggered_telescopes) \/ k > Len(teltrg_type_mask)
        THEN Got(s[1], 0, s[2], "dict")
        ELSE IF CentEvent_has_times(teltrg_type_mask[k])
        THEN Strict(read_times_by_type(s[1], NoRecord, teltrg_type_mask[k], 0),
                    LAMBDA times :
                IF ~Ok(times) THEN times
                ELSE read_teltrg_time_by_type(
                         times, (triggered_telescopes[k] :> times.val) @@ s[2],
                         triggered_telescopes, teltrg_type_mask, k + 1))
        ELSE read_teltrg_time_by_type(s[1], s[2], triggered_telescopes,
                                      teltrg_type_mask, k + 1))

CentEvent_fields(version) ==
    <<Time("cpu_time"), Time("gps_time"),
      Scalar("trigger_pattern", "i"), Scalar("data_pattern", "i")>>
    \o (IF version >= 1
        THEN <<Scalar("n_triggered_telescopes", "h"),
               Array("triggered_telescopes", "h", <<N("n_triggered_telescopes")>>),
               Array("trigger_times", "f", <<N("n_triggered_telescopes")>>),
               Scalar("n_telescopes_with_data", "h"),
               Array("telescopes_with_data", "h", <<N("n_telescopes_with_data")>>)>>
        ELSE <<>>)
    \o (IF version >= 2
        THEN <<Array("teltrg_type_mask", "B", <<N("n_triggered_telescopes")>>)>>
        ELSE <<>>)

\* a plausible slip: the trigger masks are not checked
CentEvent_parse_unchecked(hdr, f) ==
    Strict(read_fields(f, NoRecord, CentEvent_fields(hdr.version)), LAMBDA r :
        IF ~Ok(r) \/ hdr.version < 2 THEN r
        ELSE Strict(read_teltrg_time_by_type(r, NoRecord, r.val.triggered_telescopes,
                                             r.val.teltrg_type_mask, 1),
                    LAMBDA by_type :
                IF ~Ok(by_type) THEN by_type
                ELSE Got(by_type, 0, [teltrg_time_by_type |-> by_type.val] @@ r.val,
                         "dict")))

CentEvent_parse(hdr, f) ==
    Strict(read_fields(f, NoRecord, CentEvent_fields(hdr.version)), LAMBDA r :
        IF ~Ok(r) \/ hdr.version < 2 THEN r
        ELSE IF \E k \in 1..Len(r.val.teltrg_type_mask) : r.val.teltrg_type_mask[k] >= 128
        THEN Raise(r, "AssertionError")
        ELSE Strict(read_teltrg_time_by_type(r, NoRecord, r.val.triggered_telescopes,
                                             r.val.teltrg_type_mask, 1),
                    LAMBDA by_type :
                IF ~Ok(by_type) THEN by_type
                ELSE Got(by_type, 0, [teltrg_time_by_type |-> by_type.val] @@ r.val,
                         "dict")))

SimTelCentEvent_parse_data_field ==
    /\ phase \in {"object", "parsed"}
    /\ cls = "SimTelCentEvent"
    /\ Return(CentEvent_parse(header, View(payload, cursor)))

(***************************************************************************)
(* The objects followed in SpecEvent: telescope event headers and central  *)
(* events, written the way the format's writer does for the version.       *)
(***************************************************************************)
MaxList == 2
MaxTrig == 2

TimeBytes == <<1, 0, 0, 0, 2, 0, 0, 0>>

\* a list of n entries first+1 .. first+n behind its length: 16-bit integers
\* up to version 1, scounts from version 2
EncodeList(version, n, base) ==
    IF version <= 1
    THEN LE16(n) \o Flatten([i \in 1..n |-> LE16(base + i)])
    ELSE EncodeScount(n) \o Flatten([i \in 1..n |-> EncodeScount(base + i)])

EncodeTelEvtHead(version, t, nlist, nphys) ==
    LE32(5) \o LE32(6) \o TimeBytes \o TimeBytes \o LE16(t)
    \o (IF BitAnd(t, 256) # 0
        THEN EncodeList(version, nlist, 20)
             \o (IF version >= 1 /\ BitAnd(t, 1024) # 0
                 THEN Flatten([i \in 1..nlist |-> <<i, 0, 128, 63>>]) ELSE <<>>)
        ELSE <<>>)
    \o (IF BitAnd(t, 512) # 0 THEN EncodeList(version, nphys, 40) ELSE <<>>)

TelEvtHeadObjects ==
    {<<Header(2011, v, 3), EncodeTelEvtHead(v, 1 + fl, nl, np)>> :
        v \in 0..3, fl \in {0, 256, 512, 768, 1024, 1280, 1536, 1792},
        nl \in 0..MaxList, np \in 0..MaxList}

LowBits(mask) == {b \in 0..2 : (mask \div Pow2(b)) % 2 = 1}

RECURSIVE BitCount(_)
BitCount(mask) == IF mask = 0 THEN 0 ELSE (mask % 2) + BitCount(mask \div 2)

\* the time of telescope k for trigger type b
TimeOf(k, b) == <<k, b, 0, 64>>

\* the times by trigger type of telescope k: written only when more than one
\* trigger type fired
EncodeTimesByType(k, mask) ==
    IF BitCount(mask) > 1
    THEN Flatten([b \in 1..3 |-> IF (b - 1) \in LowBits(mask) THEN TimeOf(k, b - 1) ELSE <<>>])
    ELSE <<>>

EncodeCentEvent(version, masks, tels_data) ==
    LET n == Len(masks)
    IN TimeBytes \o TimeBytes \o LE32(1) \o LE32(1)
       \o (IF version >= 1
           THEN LE16(n) \o Flatten([k \in 1..n |-> LE16(10 + k)])
                \o Flatten([k \in 1..n |-> <<k, 0, 0, 63>>])
                \o LE16(tels_data) \o Flatten([k \in 1..tels_data |-> LE16(10 + k)])
           ELSE <<>>)
       \o (IF version >= 2
           THEN masks \o Flatten([k \in 1..n |-> EncodeTimesByType(k, masks[k])])
           ELSE <<>>)

MaskValues == {0, 1, 2, 3, 4, 6, 7, 8, 9, 130}

CentEventObjects ==
    {<<Header(2009, v, 77), EncodeCentEvent(v, masks, nd)>> :
        v \in 0..3, masks \in UNION {[1..n -> MaskValues] : n \in 0..MaxTrig},
        nd \in 0..1}

InitEvent ==
    /\ stream = <<>>
    /\ position = 0
    /\ payload_offset = 0
    /\ arg = -1
    /\ \/ /\ cls = "SimTelTelEvtHead"
          /\ \E o \in TelEvtHeadObjects : header = o[1] /\ payload = o[2]
       \/ /\ cls = "SimTelCentEvent"
          /\ \E o \in CentEventObjects : header = o[1] /\ payload = o[2]
    /\ phase = "header"
    /\ cursor = 0
    /\ error = "none"
    /\ obj = NoRecord
    /\ result = NoRecord

NextEvent ==
    \/ TelescopeObject_init
    \/ SimTelCentEvent_init
    \/ SimTelTelEvtHead_parse_data_field
    \/ SimTelCentEvent_parse_data_field
    \/ read

SpecEvent == InitEvent /\ [][NextEvent]_vars

(***************************************************************************)
(* Claims checked under SpecEvent.                                         *)
(***************************************************************************)
\* the length the payload gives for the list at offset pos
C5_ListLength(version, pos) ==
    IF version <= 1 THEN I16(BytesAt(payload, pos, 2))
    ELSE read_utf8_like_signed_int(View(payload, pos)).val

\* C5: for every version in 0..2 and every combination of the flag bits of t
\* the TelEventHeader parser returns a record; with t & 0x100 its
\* list_trgsect has the length the payload gives (a 16-bit integer up to
\* version 1, a scount from version 2), and with t & 0x200 num_phys_addr is
\* the length of phys_addr.
C5_TriggerSectorLists ==
    (cls = "SimTelTelEvtHead" /\ header.version <= 2 /\ phase \in {"parsed", "raised"}) =>
        LET t == I16(BytesAt(payload, 24, 2))
        IN /\ phase = "parsed"
           /\ BitAnd(t, 256) # 0 =>
                Len(result.list_trgsect) = C5_ListLength(header.version, 26)
           /\ BitAnd(t, 512) # 0 =>
                result.num_phys_addr = Len(result.phys_addr)

\* the number of floats the payload holds for the telescopes before the k-th
RECURSIVE C6_TimesBefore(_, _)
C6_TimesBefore(masks, k) ==
    IF k <= 1 THEN 0
    ELSE C6_TimesBefore(masks, k - 1)
         + (IF BitCount(masks[k - 1]) > 1 THEN Cardinality(LowBits(masks[k - 1])) ELSE 0)

\* C6: in a CentralEvent v2 record, teltrg_time_by_type has an entry for a
\* triggered telescope exactly when its mask has more than one bit set; the
\* entry holds one float per set bit among bits 0..2, keyed by the bit and read
\* from the payload in the order 0, 1, 2; telescopes whose mask has zero or
\* one bit set get no entry and no float is read for them.
C6_TimesByType ==
    [][(SimTelCentEvent_parse_data_field /\ cursor = 0 /\ header.version = 2
        /\ phase' = "parsed") =>
        LET tels == result'.triggered_telescopes
            masks == result'.teltrg_type_mask
            by_type == result'.teltrg_time_by_type
            n == Len(tels)
            times == 24 + 2 + 6 * n + 2 + 2 * result'.n_telescopes_with_data + n
        IN /\ \A k \in 1..n :
                /\ (tels[k] \in DOMAIN by_type) <=> (BitCount(masks[k]) > 1)
                /\ (tels[k] \in DOMAIN by_type) =>
                      /\ DOMAIN by_type[tels[k]] = LowBits(masks[k])
                      /\ \A b \in LowBits(masks[k]) :
                            by_type[tels[k]][b] =
                               BytesAt(payload,
                                       times + 4 * (C6_TimesBefore(masks, k)
                                                    + Cardinality({c \in LowBits(masks[k]) : c < b})),
                                       4)
           /\ cursor' = times + 4 * C6_TimesBefore(masks, n + 1)
      ]_vars

\* C9: CentralEvent (2009) and TelEventHeader (2011) support versions 0..2
\* only: an object of either type with header.version > 2 fails with
\* UnsupportedVersion and never yields a parsed record.
C9_VersionSetGate ==
    (cls \in {"SimTelCentEvent", "SimTelTelEvtHead"} /\ header.version > 2
     /\ phase \in {"no_object", "parsed", "raised"}) =>
        (phase # "parsed" /\ error = "UnsupportedVersion")

(***************************************************************************)
(* The parsers behind an exact-version gate.                               *)
(***************************************************************************)
MCRunHeader_parse(hdr, f) ==
    read_fields(assert_exact_version(seek(f, 0), hdr.version, 4), NoRecord,
        <<Scalar("shower_prog_id", "i"), Scalar("shower_prog_vers", "i"),
          Scalar("shower_prog_start", "i"), Scalar("detector_prog_id", "i"),
          Scalar("detector_prog_vers", "i"), Scalar("detector_prog_start", "i"),
          Scalar("obsheight", "f"), Scalar("num_showers", "i"),
          Scalar("num_use", "i"), Scalar("core_pos_mode", "i"),
          Array("core_range", "f", <<K(2)>>), Array("alt_range", "f", <<K(2)>>),
          Array("az_range", "f", <<K(2)>>), Scalar("diffuse", "i"),
          Array("viewcone", "f", <<K(2)>>), Array("E_range", "f", <<K(2)>>),
          Scalar("spectral_index", "f"), Scalar("B_total", "f"),
          Scalar("B_inclination", "f"), Scalar("B_declination", "f"),
          Scalar("injection_height", "f"), Scalar("atmosphere", "i"),
          Scalar("corsika_iact_options", "i"), Scalar("corsika_low_E_model", "i"),
          Scalar("corsika_high_E_model", "i"), Scalar("corsika_bunchsize", "f"),
          Scalar("corsika_wlen_min", "f"), Scalar("corsika_wlen_max", "f"),
          Scalar("corsika_low_E_detail", "i"), Scalar("corsika_high_E_detail", "i")>>)

SimTelMCRunHeader_parse_data_field ==
    /\ phase \in {"object", "parsed"}
    /\ cls = "SimTelMCRunHeader"
    /\ Return(MCRunHeader_parse(header, View(payload, cursor)))

\* for _ in range(num_pixels): n = read_from('<h')[0]; read_array('i2', n)
RECURSIVE CamOrgan_sectors(_, _, _)
CamOrgan_sectors(f, sectors, num_pixels) ==
    Strict(<<f, sectors>>, LAMBDA s :
        IF ~Ok(s[1]) THEN s[1]
        ELSE IF num_pixels <= 0 THEN Got(s[1], 0, s[2], "list")
        ELSE Strict(read_fields(s[1], NoRecord,
                        <<Scalar("n", "h"), Array("sector", "h", <<N("n")>>)>>),
                    LAMBDA r :
                IF ~Ok(r) THEN r
                ELSE CamOrgan_sectors(r, Append(s[2], r.val.sector), num_pixels - 1)))

\* for i in range(num_sectors): type_, thresh_, pix_thr_ = read_from('<Bff')
RECURSIVE CamOrgan_sector_types(_, _, _)
CamOrgan_sector_types(f, lists, num_sectors) ==
    Strict(<<f, lists>>, LAMBDA s :
        IF ~Ok(s[1]) THEN s[1]
        ELSE IF num_sectors <= 0 THEN Got(s[1], 0, s[2], "dict")
        ELSE Strict(read_from(<<"B", "f", "f">>, s[1]), LAMBDA r :
                IF ~Ok(r) THEN r
                ELSE CamOrgan_sector_types(r,
                         [sector_type |-> Append(s[2].sector_type, r.val[1]),
                          sector_threshold |-> Append(s[2].sector_threshold, r.val[2]),
                          sector_pixthresh |-> Append(s[2].sector_pixthresh, r.val[3])],
                         num_sectors - 1)))

CamOrgan_parse(self, hdr, f) ==
    Strict(read_fields(assert_exact_version(seek(f, 0), hdr.version, 1),
                       [telescope_id |-> self.telescope_id],
                       <<Scalar("num_pixels", "i"), Scalar("num_drawers", "i"),
                         Scalar("num_gains", "i"), Scalar("num_sectors", "i"),
                         Array("drawer", "h", <<N("num_pixels")>>),
                         Matrix("card", "h", N("num_pixels"), N("num_gains")),
                         Matrix("chip", "h", N("num_pixels"), N("num_gains")),
                         Matrix("channel", "h", N("num_pixels"), N("num_gains"))>>),
           LAMBDA head :
        IF ~Ok(head) THEN head
        ELSE Strict(CamOrgan_sectors(head, <<>>, head.val.num_pixels), LAMBDA sectors :
             Strict(CamOrgan_sector_types(sectors,
                        [sector_type |-> <<>>, sector_threshold |-> <<>>,
                         sector_pixthresh |-> <<>>],
                        head.val.num_sectors),
                    LAMBDA types :
                IF ~Ok(types) THEN types
                ELSE Got(types, 0,
                         Without([sectors |-> sectors.val] @@ types.val @@ head.val,
                                 {"num_pixels", "num_gains", "num_sectors"}),
                         "dict"))))

SimTelCamOrgan_parse_data_field ==
    /\ phase \in {"object", "parsed"}
    /\ cls = "SimTelCamOrgan"
    /\ Return(CamOrgan_parse(obj, header, View(payload, cursor)))

PixelDisable_parse(self, hdr, f) ==
    read_fields(assert_exact_version(seek(f, 0), hdr.version, 0),
                [telescope_id |-> self.telescope_id],
        <<Scalar("num_trig_disabled", "i"),
          Array("trigger_disabled", "i", <<N("num_trig_disabled")>>),
          Scalar("num_HV_disabled", "i"),
          Array("HV_disabled", "i", <<N("num_trig_disabled")>>)>>)

SimTelPixelDisable_parse_data_field ==
    /\ phase \in {"object", "parsed"}
    /\ cls = "SimTelPixelDisable"
    /\ Return(PixelDisable_parse(obj, header, View(payload, cursor)))

Camsoftset_parse(self, hdr, f) ==
    read_fields(assert_exact_version(seek(f, 0), hdr.version, 0),
                [telescope_id |-> self.telescope_id],
        <<Scalar("dyn_trig_mode", "i"), Scalar("dyn_trig_threshold", "i"),
          Scalar("dyn_HV_mode", "i"), Scalar("dyn_HV_threshold", "i"),
          Scalar("data_red_mode", "i"), Scalar("zero_sup_mode", "i"),
          Scalar("zero_sup_num_thr", "i"),
          Array("zero_sup_thresholds", "i", <<N("zero_sup_num_thr")>>),
          Scalar("unbiased_scale", "i"), Scalar("dyn_ped_mode", "i"),
          Scalar("dyn_ped_events", "i"), Scalar("dyn_ped_period", "i"),
          Scalar("monitor_cur_period", "i"), Scalar("report_cur_period", "i"),
          Scalar("monitor_HV_period", "i"), Scalar("report_HV_period", "i")>>)

SimTelCamsoftset_parse_data_field ==
    /\ phase \in {"object", "parsed"}
    /\ cls = "SimTelCamsoftset"
    /\ Return(Camsoftset_parse(obj, header, View(payload, cursor)))

PointingCor_parse(self, hdr, f) ==
    read_fields(assert_exact_version(seek(f, 0), hdr.version, 0),
                [telescope_id |-> self.telescope_id],
        <<Scalar("function_type", "i"), Scalar("num_param", "i"),
          Array("pointing_param", "f", <<N("num_param")>>)>>)

SimTelPointingCor_parse_data_field ==
    /\ phase \in {"object", "parsed"}
    /\ cls = "SimTelPointingCor"
    /\ Return(PointingCor_parse(obj, header, View(payload, cursor)))

HexDigits ==
    <<"0", "1", "2", "3", "4", "5", "6", "7", "8", "9", "a", "b", "c", "d", "e", "f">>

RECURSIVE HexOf(_)
HexOf(n) ==
    IF n < 16 THEN HexDigits[n + 1] ELSE HexOf(n \div 16) \o HexDigits[(n % 16) + 1]

\* hex(n) of a non-negative integer
hex(n) == "0x" \o HexOf(n)

\* the statements after num_sat
TelImage_fields(flags, num_sat) ==
    (IF num_sat > 0 THEN <<Scalar("clip_amp", "f")>> ELSE <<>>)
    \o <<Scalar("amplitude", "f"), Scalar("x", "f"), Scalar("y", "f"),
         Scalar("phi", "f"), Scalar("l", "f"), Scalar("w", "f"),
         Scalar("num_conc", "h"), Scalar("concentration", "f")>>
    \o (IF BitAnd(flags, 256) # 0
        THEN <<Scalar("x_err", "f"), Scalar("y_err", "f"), Scalar("phi_err", "f"),
               Scalar("l_err", "f"), Scalar("w_err", "f")>>
        ELSE <<>>)
    \o (IF BitAnd(flags, 512) # 0
        THEN <<Scalar("skewness", "f"), Scalar("skewness_err", "f"),
               Scalar("kurtosis", "f"), Scalar("kurtosis_err", "f")>>
        ELSE <<>>)
    \o (IF BitAnd(flags, 1024) # 0
        THEN <<Scalar("num_hot", "h"), Array("hot_amp", "f", <<N("num_hot")>>),
               Array("hot_pixel", "h", <<N("num_hot")>>)>>
        ELSE <<>>)
    \o (IF BitAnd(flags, 2048) # 0
        THEN <<Scalar("tm_slope", "f"), Scalar("tm_residual", "f"),
               Scalar("tm_width1", "f"), Scalar("tm_width2", "f"),
               Scalar("tm_rise", "f")>>
        ELSE <<>>)

TelImage_parse(hdr, f) ==
    LET flags == hdr.id
    IN Strict(read_fields(assert_exact_version(seek(f, 0), hdr.version, 5),
                          [flags |-> flags,
                           flags_hex |-> hex(flags),
                           telescope_id |->
                               BitOr(BitAnd(flags, 255),
                                     ShiftRight(BitAnd(flags, 1056964608), 16)),
                           cut_id |-> ShiftRight(BitAnd(flags, 1044480), 12)],
                          <<Scalar("pixels", "h"), Scalar("num_sat", "h")>>),
              LAMBDA head :
           IF ~Ok(head) THEN head
           ELSE read_fields(head, head.val, TelImage_fields(flags, head.val.num_sat)))

SimTelTelImage_parse_data_field ==
    /\ phase \in {"object", "parsed"}
    /\ cls = "SimTelTelImage"
    /\ Return(TelImage_parse(header, View(payload, cursor)))

\* a plausible slip: the masks of the last two groups exchanged
Shower_fields_masks_exchanged(result_bits) ==
    <<Scalar("num_trg", "h"), Scalar("num_read", "h"), Scalar("num_img", "h"),
      Scalar("img_pattern", "i")>>
    \o (IF BitAnd(result_bits, 1) # 0
        THEN <<Scalar("Az", "f"), Scalar("Alt", "f")>> ELSE <<>>)
    \o (IF BitAnd(result_bits, 2) # 0
        THEN <<Scalar("err_dir1", "f"), Scalar("err_dir2", "f"),
               Scalar("err_dir3", "f")>> ELSE <<>>)
    \o (IF BitAnd(result_bits, 4) # 0
        THEN <<Scalar("xc", "f"), Scalar("yc", "f")>> ELSE <<>>)
    \o (IF BitAnd(result_bits, 8) # 0
        THEN <<Scalar("err_core1", "f"), Scalar("err_core2", "f"),
               Scalar("err_core3", "f")>> ELSE <<>>)
    \o (IF BitAnd(result_bits, 16) # 0
        THEN <<Scalar("mscl", "f"), Scalar("mscw", "f")>> ELSE <<>>)
    \o (IF BitAnd(result_bits, 32) # 0
        THEN <<Scalar("err_mscl", "f"), Scalar("err_mscw", "f")>> ELSE <<>>)
    \o (IF BitAnd(result_bits, 64) # 0 THEN <<Scalar("energy", "f")>> ELSE <<>>)
    \o (IF BitAnd(result_bits, 128) # 0 THEN <<Scalar("err_energy", "f")>> ELSE <<>>)
    \o (IF BitAnd(result_bits, 512) # 0 THEN <<Scalar("xmax", "f")>> ELSE <<>>)
    \o (IF BitAnd(result_bits, 256) # 0 THEN <<Scalar("err_xmax", "f")>> ELSE <<>>)

Shower_fields(result_bits) ==
    <<Scalar("num_trg", "h"), Scalar("num_read", "h"), Scalar("num_img", "h"),
      Scalar("img_pattern", "i")>>
    \o (IF BitAnd(result_bits, 1) # 0
        THEN <<Scalar("Az", "f"), Scalar("Alt", "f")>> ELSE <<>>)
    \o (IF BitAnd(result_bits, 2) # 0
        THEN <<Scalar("err_dir1", "f"), Scalar("err_dir2", "f"),
               Scalar("err_dir3", "f")>> ELSE <<>>)
    \o (IF BitAnd(result_bits, 4) # 0
        THEN <<Scalar("xc", "f"), Scalar("yc", "f")>> ELSE <<>>)
    \o (IF BitAnd(result_bits, 8) # 0
        THEN <<Scalar("err_core1", "f"), Scalar("err_core2", "f"),
               Scalar("err_core3", "f")>> ELSE <<>>)
    \o (IF BitAnd(result_bits, 16) # 0
        THEN <<Scalar("mscl", "f"), Scalar("mscw", "f")>> ELSE <<>>)
    \o (IF BitAnd(result_bits, 32) # 0
        THEN <<Scalar("err_mscl", "f"), Scalar("err_mscw", "f")>> ELSE <<>>)
    \o (IF BitAnd(result_bits, 64) # 0 THEN <<Scalar("energy", "f")>> ELSE <<>>)
    \o (IF BitAnd(result_bits, 128) # 0 THEN <<Scalar("err_energy", "f")>> ELSE <<>>)
    \o (IF BitAnd(result_bits, 256) # 0 THEN <<Scalar("xmax", "f")>> ELSE <<>>)
    \o (IF BitAnd(result_bits, 512) # 0 THEN <<Scalar("err_xmax", "f")>> ELSE <<>>)

Shower_parse(hdr, f) ==
    read_fields(assert_exact_version(seek(f, 0), hdr.version, 1),
                [result_bits |-> hdr.id], Shower_fields(hdr.id))

SimTelShower_parse_data_field ==
    /\ phase \in {"object", "parsed"}
    /\ cls = "SimTelShower"
    /\ Return(Shower_parse(header, View(payload, cursor)))

MCEvent_parse(hdr, f) ==
    read_fields(assert_exact_version(seek(f, 0), hdr.version, 1),
                [event |-> hdr.id],
        <<Scalar("shower_num", "i"), Scalar("xcore", "f"), Scalar("ycore", "f")>>)

SimTelMCEvent_parse_data_field ==
    /\ phase \in {"object", "parsed"}
    /\ cls = "SimTelMCEvent"
    /\ Return(MCEvent_parse(header, View(payload, cursor)))

\* part_parser_map[0x01] .. part_parser_map[0x40], by the bit's position
TelMoni_part(part_id) ==
    CASE part_id = 0 ->
            <<Time("status_time"), Scalar("status_bits", "i")>>
      [] part_id = 1 ->
            <<Time("trig_time"), Scalar("coinc_count", "l"), Scalar("event_count", "l"),
              Scalar("trigger_rate", "f"),
              Array("sector_rate", "f", <<N("num_sectors")>>),
              Scalar("event_rate", "f"), Scalar("data_rate", "f"),
              Scalar("mean_significant", "f")>>
      [] part_id = 2 ->
            <<Time("ped_noise_time"), Scalar("num_ped_slices", "h"),
              Matrix("pedestal", "f", N("num_gains"), N("num_pixels")),
              Matrix("noise", "f", N("num_gains"), N("num_pixels"))>>
      [] part_id = 3 ->
            <<Time("hv_temp_time"), Scalar("num_drawer_temp", "h"),
              Scalar("num_camera_temp", "h"),
              Array("hv_v_mon", "h", <<N("num_pixels")>>),
              Array("hv_i_mon", "h", <<N("num_pixels")>>),
              Array("hv_stat", "B", <<N("num_pixels")>>),
              Matrix("drawer_temp", "h", N("num_drawers"), N("num_drawer_temp")),
              Array("camera_temp", "h", <<N("num_camera_temp")>>)>>
      [] part_id = 4 ->
            <<Time("dc_rate_time"), Array("current", "H", <<N("num_pixels")>>),
              Array("scaler", "H", <<N("num_pixels")>>)>>
      [] part_id = 5 ->
            <<Time("hv_thr_time"), Array("hv_dac", "H", <<N("num_pixels")>>),
              Array("thresh_dac", "H", <<N("num_drawers")>>),
              Array("hv_set", "B", <<N("num_pixels")>>),
              Array("trig_set", "B", <<N("num_pixels")>>)>>
      [] part_id = 6 ->
            <<Time("set_daq_time"), Scalar("daq_conf", "H"),
              Scalar("daq_scaler_win", "H"), Scalar("daq_nd", "H"),
              Scalar("daq_acc", "H"), Scalar("daq_nl", "H")>>
      [] part_id = 7 ->
            <<Raising("KeyError")>>

\* for part_id in range(8): part_parser_map[what & (1 << part_id)], from
\* part_id on; the map has no entry for 0x80
RECURSIVE TelMoni_parts(_, _)
TelMoni_parts(what, part_id) ==
    IF part_id >= 8 THEN <<>>
    ELSE (IF BitAnd(what, Pow2(part_id)) # 0 THEN TelMoni_part(part_id) ELSE <<>>)
         \o TelMoni_parts(what, part_id + 1)

TelMoni_parse(hdr, f) ==
    LET telescope_id == BitOr(BitAnd(hdr.id, 255),
                              ShiftRight(BitAnd(hdr.id, 1056964608), 16))
        what == BitAnd(ShiftRight(BitAnd(hdr.id, 16776960), 8), 65535)
    IN read_fields(assert_exact_version(seek(f, 0), hdr.version, 0),
                   [telescope_id |-> telescope_id, what |-> what],
                   <<Scalar("known", "h"), Scalar("new_parts", "h"),
                     Scalar("monitor_id", "i"), Time("moni_time"),
                     Unpacked(<<"num_sectors", "num_pixels", "num_drawers", "num_gains">>,
                              <<"h", "h", "h", "h">>)>>
                   \o TelMoni_parts(what, 0))

SimTelTelMoni_parse_data_field ==
    /\ phase \in {"object", "parsed"}
    /\ cls = "SimTelTelMoni"
    /\ Return(TelMoni_parse(header, View(payload, cursor)))

\* tmp_[:, column]
column_of(matrix, column) == [g \in DOMAIN matrix |-> matrix[g][column]]

LasCal_parse(self, hdr, f) ==
    Strict(read_fields(assert_exact_version(seek(f, 0), hdr.version, 2),
                       [telescope_id |-> self.telescope_id],
                       <<Scalar("num_pixels", "h"), Scalar("num_gains", "h"),
                         Scalar("lascal_id", "i"),
                         Matrix("calib", "f", N("num_gains"), N("num_pixels")),
                         Matrix("tmp_", "f", N("num_gains"), K(2)),
                         Matrix("tm_calib", "f", N("num_gains"), N("num_pixels"))>>),
           LAMBDA r :
        IF ~Ok(r) THEN r
        ELSE Got(r, 0,
                 Without([max_int_frac |-> column_of(r.val.tmp_, 0),
                          max_pixtm_frac |-> column_of(r.val.tmp_, 1)] @@ r.val,
                         {"num_pixels", "num_gains", "tmp_"}),
                 "dict"))

SimTelLasCal_parse_data_field ==
    /\ phase \in {"object", "parsed"}
    /\ cls = "SimTelLasCal"
    /\ Return(LasCal_parse(obj, header, View(payload, cursor)))

PixelList_parse(hdr, f) ==
    read_fields(assert_exact_version(seek(f, 0), hdr.version, 0),
                [code |-> hdr.id \div 1000000, telescope |-> hdr.id % 1000000],
        <<Tuple("pixels", "h"), Array("pixel_list", "h", <<N("pixels")>>)>>)

SimTelPixelList_parse_data_field ==
    /\ phase \in {"object", "parsed"}
    /\ cls = "SimTelPixelList"
    /\ Return(PixelList_parse(header, View(payload, cursor)))

(***************************************************************************)
(* The objects followed in SpecGate: one object of each gated type, with   *)
(* every version up to MaxVersion and a payload as the writer of the       *)
(* supported version lays it out.                                          *)
(***************************************************************************)
MaxVersion == 6
MaxDisabled == 2

\* n 32-bit words 1, 2, ..
Words(n) == Flatten([k \in 1..n |-> LE32(k)])

EncodeCamOrgan ==
    LE32(2) \o LE32(1) \o LE32(1) \o LE32(1)
    \o LE16(0) \o LE16(0)
    \o LE16(1) \o LE16(2) \o LE16(3) \o LE16(4) \o LE16(5) \o LE16(6)
    \o LE16(1) \o LE16(0) \o LE16(1) \o LE16(1)
    \o <<1>> \o <<0, 0, 128, 63>> \o <<0, 0, 0, 64>>

EncodePixelDisable(num_trig, num_HV) ==
    LE32(num_trig) \o Flatten([k \in 1..num_trig |-> LE32(10 + k)])
    \o LE32(num_HV) \o Flatten([k \in 1..num_HV |-> LE32(20 + k)])

EncodeCamsoftset == Words(6) \o LE32(1) \o LE32(9) \o Words(8)

EncodePointingCor == LE32(1) \o LE32(2) \o Words(2)

\* the number of floats that the set bits of flags add to a telescope image
TelImageFloats(flags) ==
    (IF BitAnd(flags, 256) # 0 THEN 5 ELSE 0)
    + (IF BitAnd(flags, 512) # 0 THEN 4 ELSE 0)

EncodeTelImage(flags, num_sat, num_hot) ==
    LE16(4) \o LE16(num_sat)
    \o (IF num_sat > 0 THEN Words(1) ELSE <<>>)
    \o Words(6) \o LE16(1) \o Words(1)
    \o Words(TelImageFloats(flags))
    \o (IF BitAnd(flags, 1024) # 0
        THEN LE16(num_hot) \o Words(num_hot)
             \o Flatten([k \in 1..num_hot |-> LE16(k)])
        ELSE <<>>)
    \o (IF BitAnd(flags, 2048) # 0 THEN Words(5) ELSE <<>>)

\* the number of floats each result bit adds to a shower
ShowerFloats == <<2, 3, 2, 3, 2, 2, 1, 1, 1, 1>>

EncodeShower(result_bits) ==
    LE16(1) \o LE16(2) \o LE16(3) \o LE32(4)
    \o Flatten([b \in 1..10 |->
                  IF BitAnd(result_bits, Pow2(b - 1)) # 0
                  THEN Words(ShowerFloats[b]) ELSE <<>>])

EncodeMCEvent == Words(3)

\* the bytes of each part of a monitoring block whose four sizes are 1 and
\* whose temperature counts are 0
TelMoniPartBytes == <<12, 36, 18, 17, 12, 14, 18>>

EncodeTelMoni(what) ==
    LE16(1) \o LE16(1) \o LE32(1) \o TimeBytes
    \o LE16(1) \o LE16(1) \o LE16(1) \o LE16(1)
    \o Flatten([b \in 1..7 |->
                  IF BitAnd(what, Pow2(b - 1)) # 0
                  THEN Zeros(TelMoniPartBytes[b]) ELSE <<>>])

EncodeLasCal == LE16(2) \o LE16(1) \o LE32(8) \o Words(2) \o Words(2) \o Words(2)

EncodePixelList(pixels) == LE16(pixels) \o Flatten([k \in 1..pixels |-> LE16(k)])

\* class, type code, header id and payload of the objects followed
GatedObjects ==
    {<<"SimTelMCRunHeader", 2001, 1, Words(35)>>,
     <<"SimTelCamOrgan", 2003, 3, EncodeCamOrgan>>,
     <<"SimTelCamsoftset", 2006, 3, EncodeCamsoftset>>,
     <<"SimTelPointingCor", 2007, 3, EncodePointingCor>>,
     <<"SimTelTelADCSamp", 2013, 4096,
       EncodeADCSamp(FALSE, 2, 1, 2, <<>>, 1)>>,
     <<"SimTelTelADCSamp", 2013, 4097,
       EncodeADCSamp(TRUE, 2, 1, 2, <<<<0, 1>>>>, 1)>>,
     <<"SimTelMCEvent", 2021, 9, EncodeMCEvent>>,
     <<"SimTelLasCal", 2023, 3, EncodeLasCal>>,
     <<"SimTelMCPeSum", 2026, 31, EncodeMCPeSum(<<0>>, <<4>>, <<0>>)>>,
     <<"SimTelPixelList", 2027, 1000003, EncodePixelList(0)>>,
     <<"SimTelPixelList", 2027, 1000003, EncodePixelList(2)>>}
    \cup {<<"SimTelPixelDisable", 2005, 3, EncodePixelDisable(num_trig, num_HV)>> :
             num_trig \in 0..MaxDisabled, num_HV \in 0..MaxDisabled}
    \cup {<<"SimTelTelImage", 2014, 3 + flags, EncodeTelImage(flags, num_sat, 1)>> :
             flags \in {0, 256, 1536, 2048, 3840}, num_sat \in {0, 1}}
    \cup {<<"SimTelShower", 2015, bits, EncodeShower(bits)>> :
             bits \in {0, 1, 6, 64, 682, 1023}}
    \cup {<<"SimTelTelMoni", 2022, 3 + 256 * what, EncodeTelMoni(what)>> :
             what \in {0, 1, 2, 12, 48, 64, 127, 128, 129, 257, 32768}}

InitGate ==
    /\ stream = <<>>
    /\ position = 0
    /\ payload_offset = 0
    /\ arg = -1
    /\ \E o \in GatedObjects, v \in 0..MaxVersion :
          /\ cls = o[1]
          /\ header = Header(o[2], v, o[3])
          /\ payload = o[4]
    /\ phase = "header"
    /\ cursor = 0
    /\ error = "none"
    /\ obj = NoRecord
    /\ result = NoRecord

NextGate ==
    \/ EventIOObject_init
    \/ TelescopeObject_init
    \/ SimTelTelADCSamp_init
    \/ SimTelMCRunHeader_parse_data_field
    \/ SimTelCamOrgan_parse_data_field
    \/ SimTelPixelDisable_parse_data_field
    \/ SimTelCamsoftset_parse_data_field
    \/ SimTelPointingCor_parse_data_field
    \/ SimTelTelADCSamp_parse_data_field
    \/ SimTelTelImage_parse_data_field
    \/ SimTelShower_parse_data_field
    \/ SimTelMCEvent_parse_data_field
    \/ SimTelTelMoni_parse_data_field
    \/ SimTelLasCal_parse_data_field
    \/ SimTelMCPeSum_parse_data_field
    \/ SimTelPixelList_parse_data_field
    \/ read

SpecGate == InitGate /\ [][NextGate]_vars

(***************************************************************************)
(* Claims checked under SpecGate.                                          *)
(***************************************************************************)
\* the one version each gated type accepts, by type code
C8_ExactVersion ==
    (2001 :> 4) @@ (2003 :> 1) @@ (2005 :> 0) @@ (2006 :> 0) @@ (2007 :> 0)
    @@ (2013 :> 3) @@ (2014 :> 5) @@ (2015 :> 1) @@ (2021 :> 1) @@ (2022 :> 0)
    @@ (2023 :> 2) @@ (2026 :> 2) @@ (2027 :> 0)

\* C8: for each type with an exact-version gate, parse_data_field on an
\* object whose header.version differs from the type's version fails with
\* UnsupportedVersion, returns no record and leaves the cursor at payload
\* offset 0, wherever the cursor was before.
C8_ExactVersionGate ==
    (/\ header.type \in DOMAIN C8_ExactVersion
     /\ header.version # C8_ExactVersion[header.type]
     /\ phase \in {"parsed", "raised"}) =>
        /\ phase = "raised"
        /\ error = "UnsupportedVersion"
        /\ result = NoRecord
        /\ cursor = 0

C8_Witness ==
    /\ cls = "SimTelTelImage"
    /\ header.version = 6
    /\ phase = "raised"
    /\ error = "UnsupportedVersion"
    /\ cursor = 0

(***************************************************************************)
(* The history objects (70 .. 72), the run header (2000), the camera       *)
(* settings (2002), the pixel set (2004) and the tracking setup (2008).    *)
(***************************************************************************)
\* read_ints(n, f): n 32-bit integers
read_ints(n, f) == read_from([k \in 1..n |-> "i"], f)

\* read_eventio_string(f): a 16-bit length and that many bytes
read_eventio_string(f) ==
    Strict(item0(read_from(<<"h">>, f)), LAMBDA length :
        IF ~Ok(length) THEN length
        ELSE IF length.val < 0 THEN Raise(length, "ValueError")
        ELSE IF length.pos + length.val > Len(length.buf)
        THEN Raise(length, "UnexpectedEndOfStream")
        ELSE Got(length, length.val, BytesAt(length.buf, length.pos, length.val),
                 "bytes"))

\* self.timestamp, = read_ints(1, self), at the cursor of the new object
History_init ==
    /\ phase = "header"
    /\ LET r == item0(read_ints(1, View(payload, cursor)))
       IN /\ cursor' = r.pos
          /\ position' = payload_offset + r.pos
          /\ error' = r.err
          /\ phase' = IF Ok(r) THEN "object" ELSE "no_object"
          /\ obj' = IF Ok(r) THEN [timestamp |-> r.val] ELSE NoRecord
    /\ UNCHANGED <<cls, header, payload, result, arg, stream, payload_offset>>

HistoryCommandLine_init ==
    /\ cls = "HistoryCommandLine"
    /\ History_init

HistoryConfig_init ==
    /\ cls = "HistoryConfig"
    /\ History_init

\* self.seek(4); return read_eventio_string(self)
History_parse(f) == read_eventio_string(seek(f, 4))

HistoryCommandLine_parse_data_field ==
    /\ phase \in {"object", "parsed"}
    /\ cls = "HistoryCommandLine"
    /\ Return(History_parse(View(payload, cursor)))

HistoryConfig_parse_data_field ==
    /\ phase \in {"object", "parsed"}
    /\ cls = "HistoryConfig"
    /\ Return(History_parse(View(payload, cursor)))

\* read_array(self, dtype=dt, count=1)[0] for a structured dtype dt given as
\* a list of fields whose shapes are known: the record is read as a whole,
\* and its fields are entered into the dict rec
RECURSIVE RecordSize(_, _)
RecordSize(rec, fields) ==
    IF fields = <<>> THEN 0
    ELSE ItemSize(Head(fields)[3])
            * (IF Head(fields)[2] = "scalar" THEN 1 ELSE Product(rec, Head(fields)[4]))
         + RecordSize(rec, Tail(fields))

read_record(f, rec, fields) ==
    Strict(f, LAMBDA g :
        IF ~Ok(g) THEN g
        ELSE IF \E k \in 1..Len(fields) :
                   /\ fields[k][2] # "scalar"
                   /\ \E j \in 1..Len(fields[k][4]) : Product(rec, <<fields[k][4][j]>>) < 0
        THEN Raise(g, "ValueError")
        ELSE IF g.pos + RecordSize(rec, fields) > Len(g.buf) THEN Raise(g, "OversizedArray")
        ELSE read_fields(g, rec, fields))

SimTelRunHeader_init ==
    /\ phase = "header"
    /\ cls = "SimTelRunHeader"
    /\ phase' = "object"
    /\ obj' = [run_id |-> header.id]
    /\ UNCHANGED <<cls, header, payload, cursor, error, result, arg, stream, position, payload_offset>>

runheader_dtype_part1 ==
    <<Scalar("run", "i"), Scalar("time", "i"), Scalar("run_type", "i"),
      Scalar("tracking_mode", "i"), Scalar("reverse_flag", "i"),
      Array("direction", "f", <<K(2)>>), Array("offset_fov", "f", <<K(2)>>),
      Scalar("conv_depth", "f"), Array("conv_ref_pos", "f", <<K(2)>>),
      Scalar("n_telescopes", "i")>>

runheader_dtype_part2(n_telescopes) ==
    <<Array("tel_id", "h", <<K(n_telescopes)>>),
      Matrix("tel_pos", "f", K(n_telescopes), K(3)),
      Scalar("min_tel_trig", "i"), Scalar("duration", "i")>>

RunHeader_parse(f) ==
    Strict(read_record(seek(f, 0), NoRecord, runheader_dtype_part1), LAMBDA part1 :
        IF ~Ok(part1) THEN part1
        ELSE Strict(read_record(part1, part1.val,
                                runheader_dtype_part2(part1.val.n_telescopes)),
                    LAMBDA part2 :
                IF ~Ok(part2) THEN part2
                ELSE Strict(read_eventio_string(part2), LAMBDA target :
                        IF ~Ok(target) THEN target
                        ELSE Strict(read_eventio_string(target), LAMBDA observer :
                                IF ~Ok(observer) THEN observer
                                ELSE Got(observer, 0,
                                         [target |-> target.val, observer |-> observer.val]
                                         @@ part2.val, "dict")))))

SimTelRunHeader_parse_data_field ==
    /\ phase \in {"object", "parsed"}
    /\ cls = "SimTelRunHeader"
    /\ Return(RunHeader_parse(View(payload, cursor)))

CamSettings_parse(self, f) ==
    Strict(read_fields(f, NoRecord,
               <<Scalar("n_pixels", "i"), Scalar("focal_length", "f"),
                 Array("pixel_x", "f", <<N("n_pixels")>>),
                 Array("pixel_y", "f", <<N("n_pixels")>>)>>), LAMBDA r :
        IF ~Ok(r) THEN r
        ELSE Got(r, 0, [telescope_id |-> self.telescope_id] @@ r.val, "dict"))

SimTelCamSettings_parse_data_field ==
    /\ phase \in {"object", "parsed"}
    /\ cls = "SimTelCamSettings"
    /\ Return(CamSettings_parse(obj, View(payload, cursor)))

Pixelset_dt1 ==
    <<Scalar("setup_id", "i"), Scalar("trigger_mode", "i"),
      Scalar("min_pixel_mult", "i"), Scalar("num_pixels", "i")>>

Pixelset_dt2(num_pixels) ==
    <<Array("pixel_HV_DAC", "i", <<K(num_pixels)>>), Scalar("num_drawers", "i")>>

Pixelset_dt3(num_drawers) ==
    <<Array("threshold_DAC", "i", <<K(num_drawers)>>), Scalar("num_drawers_", "i"),
      Array("ADC_start", "i", <<K(num_drawers)>>), Scalar("num_drawers__", "i"),
      Array("ADC_count", "i", <<K(num_drawers)>>),
      Scalar("time_slice", "f"), Scalar("sum_bins", "i")>>

Pixelset_dt4(nrefshape, lrefshape) ==
    <<Scalar("ref_step", "f"), Matrix("refshape", "f", K(nrefshape), K(lrefshape))>>

\* p1 .. p4 are read one behind the other, each into the dict that
\* merge_structured_arrays_into_dict builds of them at the end
Pixelset_parse(f) ==
    Strict(read_record(seek(f, 0), NoRecord, Pixelset_dt1), LAMBDA p1 :
        IF ~Ok(p1) THEN p1
        ELSE Strict(read_record(p1, p1.val, Pixelset_dt2(p1.val.num_pixels)), LAMBDA p2 :
            IF ~Ok(p2) THEN p2
            ELSE Strict(read_record(p2, p2.val, Pixelset_dt3(p2.val.num_drawers)),
                        LAMBDA p3 :
                IF ~Ok(p3) THEN p3
                ELSE Strict(read_utf8_like_signed_int(p3), LAMBDA nrefshape :
                    IF ~Ok(nrefshape) THEN nrefshape
                    ELSE Strict(read_utf8_like_signed_int(nrefshape), LAMBDA lrefshape :
                        IF ~Ok(lrefshape) THEN lrefshape
                        ELSE read_record(lrefshape, p3.val,
                                         Pixelset_dt4(nrefshape.val, lrefshape.val)))))))

SimTelPixelset_parse_data_field ==
    /\ phase \in {"object", "parsed"}
    /\ cls = "SimTelPixelset"
    /\ Return(Pixelset_parse(View(payload, cursor)))

TrackSet_parse(f) ==
    read_fields(f, NoRecord,
        <<Scalar("drive_type_az", "h"), Scalar("drive_type_alt", "h"),
          Scalar("zeropoint_az", "f"), Scalar("zeropoint_alt", "f"),
          Scalar("sign_az", "f"), Scalar("sign_alt", "f"),
          Scalar("resolution_az", "f"), Scalar("resolution_alt", "f"),
          Scalar("range_low_az", "f"), Scalar("range_low_alt", "f"),
          Scalar("range_high_az", "f"), Scalar("range_high_alt", "f"),
          Scalar("park_pos_az", "f"), Scalar("park_pos_alt", "f")>>)

SimTelTrackSet_parse_data_field ==
    /\ phase \in {"object", "parsed"}
    /\ cls = "SimTelTrackSet"
    /\ Return(TrackSet_parse(View(payload, cursor)))

(***************************************************************************)
(* SpecObjects: one object of each of these classes and of each class that *)
(* defines neither a constructor nor a parser, with payloads as the writer *)
(* lays them out and with payloads that end early.                         *)
(***************************************************************************)
MaxString == 2

EncodeString(n) == LE16(n) \o [k \in 1..n |-> 64 + k]

EncodeRunHeader(n_telescopes, n) ==
    Words(5) \o Words(2) \o Words(2) \o Words(1) \o Words(2) \o LE32(n_telescopes)
    \o Flatten([k \in 1..n_telescopes |-> LE16(k)])
    \o Words(3 * n_telescopes) \o LE32(2) \o LE32(60)
    \o EncodeString(n) \o EncodeString(n)

EncodeCamSettings(n_pixels) ==
    LE32(n_pixels) \o <<0, 0, 192, 63>> \o Words(n_pixels) \o Words(n_pixels)

EncodePixelset(num_pixels, num_drawers, nrefshape, lrefshape) ==
    Words(3) \o LE32(num_pixels) \o Words(num_pixels) \o LE32(num_drawers)
    \o Words(num_drawers) \o LE32(num_drawers) \o Words(num_drawers)
    \o LE32(num_drawers) \o Words(num_drawers) \o Words(2)
    \o EncodeScount(nrefshape) \o EncodeScount(lrefshape)
    \o Words(1) \o Words(nrefshape * lrefshape)

EncodeTrackSet == LE16(1) \o LE16(2) \o Words(12)

\* class, type code, header id and payload
PlainObjects ==
    {<<"History", 70, 0, <<>>>>, <<"SimTelEvent", 2010, 12, <<>>>>,
     <<"SimTelTelADCSum", 2012, 0, <<>>>>, <<"SimTelPixelTiming", 2016, 3, <<>>>>,
     <<"SimTelPixelCalib", 2017, 3, <<>>>>, <<"SimTelMCShower", 2020, 1, Words(1)>>,
     <<"SimTelRunStat", 2024, 1, <<>>>>, <<"SimTelMCRunStat", 2025, 1, <<>>>>,
     <<"SimTelCalibEvent", 2028, 1, <<>>>>,
     <<"HistoryCommandLine", 71, 0, <<1, 0>>>>,
     <<"HistoryConfig", 72, 0, LE32(7) \o <<5, 0, 65>>>>,
     <<"SimTelCamSettings", 2002, 5, EncodeCamSettings(2) \o <<9>>>>,
     <<"SimTelPixelset", 2004, 7, <<1, 0, 0, 0>>>>,
     <<"SimTelTrackSet", 2008, 3, EncodeTrackSet \o EncodeTrackSet>>}
    \cup {<<c, t, 0, LE32(7) \o EncodeString(n)>> :
             c \in {"HistoryCommandLine"}, t \in {71}, n \in 0..MaxString}
    \cup {<<c, t, 0, LE32(7) \o EncodeString(n)>> :
             c \in {"HistoryConfig"}, t \in {72}, n \in 0..MaxString}
    \cup {<<"SimTelRunHeader", 2000, 31, EncodeRunHeader(n_telescopes, n)>> :
             n_telescopes \in 0..MaxTel, n \in 0..MaxString}
    \cup {<<"SimTelCamSettings", 2002, 5, EncodeCamSettings(n_pixels)>> :
             n_pixels \in 0..MaxPixels}
    \cup {<<"SimTelPixelset", 2004, 7, EncodePixelset(np, nd, nr, lr)>> :
             np \in 0..1, nd \in 0..1, nr \in 0..MaxGains, lr \in 0..1}
    \cup {<<"SimTelTrackSet", 2008, 3, EncodeTrackSet>>}

InitObjects ==
    /\ stream = <<>>
    /\ position = 0
    /\ payload_offset = 0
    /\ arg = -1
    /\ \E o \in PlainObjects, v \in 0..1 :
          /\ cls = o[1]
          /\ header = Header(o[2], v, o[3])
          /\ payload = o[4]
    /\ phase = "header"
    /\ cursor = 0
    /\ error = "none"
    /\ obj = NoRecord
    /\ result = NoRecord

NextObjects ==
    \/ EventIOObject_init
    \/ TelescopeObject_init
    \/ HistoryCommandLine_init
    \/ HistoryConfig_init
    \/ SimTelRunHeader_init
    \/ HistoryCommandLine_parse_data_field
    \/ HistoryConfig_parse_data_field
    \/ SimTelRunHeader_parse_data_field
    \/ SimTelCamSettings_parse_data_field
    \/ SimTelPixelset_parse_data_field
    \/ SimTelTrackSet_parse_data_field
    \/ read

SpecObjects == InitObjects /\ [][NextObjects]_vars

(***************************************************************************)
(* The object walker.  It yields the top-level objects of a byte source in *)
(* stream order; a payload view borrows the source, so reading through the *)
(* view moves the source's position.                                       *)
(***************************************************************************)
\* sync marker, type word, id and length word, four bytes each
HeaderLength == 16

MaxObjects == 2

\* where object i of stream s starts
RECURSIVE ObjectStart(_, _)
ObjectStart(s, i) ==
    IF i = 1 THEN 0
    ELSE ObjectStart(s, i - 1) + HeaderLength + Len(s[i - 1].payload)

StreamLength(s) == ObjectStart(s, Len(s) + 1)

\* the header reader at absolute position pos: the object that starts there
read_next_header(s, pos) ==
    IF pos = StreamLength(s) THEN [err |-> "StopIteration"]
    ELSE IF pos > StreamLength(s) THEN [err |-> "UnexpectedEndOfStream"]
    ELSE IF \E i \in 1..Len(s) : ObjectStart(s, i) = pos
    THEN [err |-> "none",
          index |-> CHOOSE i \in 1..Len(s) : ObjectStart(s, i) = pos,
          payload_offset |-> pos + HeaderLength]
    ELSE [err |-> "InvalidSyncMarker"]

Walker_next_header_pos_from_source(pos, offset, length) == pos

\* the walker skips to the next top-level object using the header length
Walker_next_header_pos(pos, offset, length) == offset + length

\* the walker yields the next object: it restores the source past the payload
\* of the object it yielded before, reads the header there and leaves the
\* source just past the new object's payload
Walker_next ==
    /\ phase \notin {"telid", "stopped"}
    /\ LET pos == Walker_next_header_pos(position, payload_offset, Len(payload))
           h == read_next_header(stream, pos)
       IN IF h.err # "none"
          THEN /\ phase' = "stopped"
               /\ error' = IF h.err = "StopIteration" THEN error ELSE h.err
               /\ position' = pos
               /\ UNCHANGED <<cls, header, payload, cursor, payload_offset>>
          ELSE /\ cls' = stream[h.index].cls
               /\ header' = stream[h.index].header
               /\ payload' = stream[h.index].payload
               /\ cursor' = 0
               /\ payload_offset' = h.payload_offset
               /\ position' = h.payload_offset + Len(stream[h.index].payload)
               /\ phase' = "header"
               /\ error' = error
    /\ UNCHANGED <<obj, result, arg, stream>>

(***************************************************************************)
(* SpecWalk: streams of one to MaxObjects objects; the caller constructs,  *)
(* reads and parses the yielded object or leaves it, and asks for the next.*)
(* FairWalk adds the caller that keeps iterating.                          *)
(***************************************************************************)
WalkObjects ==
    {[cls |-> "SimTelPixelDisable", header |-> Header(2005, 0, 3),
      payload |-> EncodePixelDisable(1, 1)],
     [cls |-> "SimTelPixelDisable", header |-> Header(2005, 0, 3),
      payload |-> EncodePixelDisable(0, 1)],
     [cls |-> "SimTelPixelDisable", header |-> Header(2005, 0, 3),
      payload |-> EncodePixelDisable(1, 0)],
     [cls |-> "SimTelShower", header |-> Header(2015, 1, 6),
      payload |-> EncodeShower(6)],
     [cls |-> "SimTelTelMoni", header |-> Header(2022, 0, 3 + 256 * 129),
      payload |-> EncodeTelMoni(129)],
     [cls |-> "SimTelPixelList", header |-> Header(2027, 0, 1000003),
      payload |-> EncodePixelList(2)]}

RECURSIVE Streams(_)
Streams(n) ==
    IF n = 0 THEN {<<>>}
    ELSE {<<>>} \cup {<<o>> \o s : o \in WalkObjects, s \in Streams(n - 1)}

InitWalk ==
    /\ stream \in Streams(MaxObjects) \ {<<>>}
    /\ position = 0
    /\ payload_offset = 0
    /\ cls = "none"
    /\ header = Header(0, 0, 0)
    /\ payload = <<>>
    /\ cursor = 0
    /\ phase = "start"
    /\ error = "none"
    /\ obj = NoRecord
    /\ result = NoRecord
    /\ arg = -1

NextWalk ==
    \/ Walker_next
    \/ EventIOObject_init
    \/ TelescopeObject_init
    \/ SimTelPixelDisable_parse_data_field
    \/ SimTelShower_parse_data_field
    \/ SimTelTelMoni_parse_data_field
    \/ SimTelPixelList_parse_data_field
    \/ read

SpecWalk == InitWalk /\ [][NextWalk]_vars

FairWalk == SpecWalk /\ WF_vars(Walker_next)

\* C12: whatever the caller did with the object yielded last (nothing, reads,
\* a parse that returned, a parse that raised part-way through the payload),
\* the walker's next step yields the object that starts at payload_offset +
\* length of that object; a caller that keeps iterating reaches the end of
\* the stream.
C12_WalkerAdvances ==
    /\ [][(Walker_next /\ phase # "start"
           /\ payload_offset + Len(payload) < StreamLength(stream)) =>
            /\ phase' = "header"
            /\ payload_offset' = payload_offset + Len(payload) + HeaderLength
            /\ \E i \in 1..(Len(stream) - 1) :
                  /\ ObjectStart(stream, i) + HeaderLength = payload_offset
                  /\ header' = stream[i + 1].header
                  /\ payload' = stream[i + 1].payload
            /\ cursor' = 0
            /\ position' = payload_offset' + Len(payload')]_vars
    /\ <>(phase = "stopped" /\ position = StreamLength(stream))

\* the second object of a stream was yielded after the parse of the first
\* one raised part-way through its payload
C12_Witness ==
    /\ phase = "header"
    /\ Len(stream) = 2
    /\ payload_offset = ObjectStart(stream, 2) + HeaderLength
    /\ error = "OversizedArray"
    /\ cursor = 0

(***************************************************************************)
(* SpecDiff: the two decoders of the differential vector on encoded        *)
(* difference lists, with bytes before the cursor and after the vector.    *)
(***************************************************************************)
MaxDeltas == 3

DeltaValues == {-40000, -2, 0, 5, 64, 40000}

RECURSIVE EncodeUnsigned(_)
EncodeUnsigned(u) ==
    IF u < 128 THEN <<u>> ELSE <<128 + (u % 128)>> \o EncodeUnsigned(u \div 128)

EncodeDelta(v) == EncodeUnsigned(IF v >= 0 THEN 2 * v ELSE -2 * v - 1)

EncodeDeltas(deltas) == Flatten([j \in 1..Len(deltas) |-> EncodeDelta(deltas[j])])

InitDiff ==
    /\ stream = <<>>
    /\ position = 0
    /\ payload_offset = 0
    /\ cls = "EventIOObject"
    /\ header = Header(0, 0, 0)
    /\ \E deltas \in UNION {[1..n -> DeltaValues] : n \in 0..MaxDeltas},
          before \in {<<>>, <<129>>}, after \in {<<>>, <<7>>, <<129>>} :
          /\ payload = before \o EncodeDeltas(deltas) \o after
          /\ cursor = Len(before)
    /\ phase = "object"
    /\ error = "none"
    /\ obj = NoRecord
    /\ result = NoRecord
    /\ arg = -1

\* a caller decodes n samples at the cursor with the optimized decoder
read_vector_optimized ==
    /\ phase \in {"object", "parsed"}
    /\ \E n \in 0..MaxDeltas :
          Return(read_vector_of_uint32_scount_differential_optimized(
                     View(payload, cursor), n))

\* a caller decodes n samples at the cursor with the reference decoder
read_vector_reference ==
    /\ phase \in {"object", "parsed"}
    /\ \E n \in 0..MaxDeltas :
          Return(read_vector_of_uint32_scount_differential(View(payload, cursor), n))

NextDiff == read_vector_optimized \/ read_vector_reference \/ read

SpecDiff == InitDiff /\ [][NextDiff]_vars

\* C13: wherever the cursor stands and for every n, if the reference decoder
\* returns n samples then the optimized decoder returns the same n samples
\* and leaves the cursor at the same position.
C13_OptimizedIsReference ==
    \A n \in 0..MaxDeltas :
        LET ref == read_vector_of_uint32_scount_differential(View(payload, cursor), n)
            opt == read_vector_of_uint32_scount_differential_optimized(
                       View(payload, cursor), n)
        IN Ok(ref) =>
              /\ Ok(opt)
              /\ DOMAIN opt.val = 0..(n - 1)
              /\ opt.val = ref.val
              /\ opt.pos = ref.pos

\* the differences +5, 0, -2 were decoded to 5, 5, 3, with a byte left after
\* them in the payload
C13_Witness ==
    /\ phase = "parsed"
    /\ payload = EncodeDeltas(<<5, 0, -2>>) \o <<7>>
    /\ result = [j \in 0..2 |-> <<5, 5, 3>>[j + 1]]
    /\ cursor = 3

\* the mask bytes of a version-2 central event's payload, found behind the
\* two times, the two patterns and the two telescope lists
C14_MaskBytes ==
    LET n == payload[25] + 256 * payload[26]
        with_data == payload[27 + 6 * n] + 256 * payload[28 + 6 * n]
        first == 28 + 6 * n + 2 * with_data
    IN {payload[first + k] : k \in 1..n}

\* C14: every CentralEvent v2 record returned has all its teltrg_type_mask
\* bytes below 128, and parsing a version-2 central event whose payload holds
\* a mask byte of 128 or more fails and returns no record.
C14_MaskBelow128 ==
    /\ [](( cls = "SimTelCentEvent" /\ header.version = 2 /\ phase = "parsed") =>
            \A k \in 1..Len(result.teltrg_type_mask) : result.teltrg_type_mask[k] < 128)
    /\ [][(/\ SimTelCentEvent_parse_data_field
           /\ header.version = 2
           /\ cursor = 0
           /\ \E b \in C14_MaskBytes : b >= 128) =>
            /\ phase' = "raised"
            /\ error' = "AssertionError"
            /\ result' = NoRecord]_vars

\* a version-2 central event with a mask byte of 130 was parsed from its start
\* and the parser raised at the mask check
C14_Witness ==
    /\ cls = "SimTelCentEvent"
    /\ header.version = 2
    /\ phase = "raised"
    /\ error = "AssertionError"
    /\ cursor = Len(payload) - 4
    /\ payload[cursor] = 130

\* C15: the tensor TelADCSamp returns has shape [num_gains][num_pixels]
\* [num_samples] with u16 entries in both modes; without zero suppression the
\* vector at [g][p] is the (g * num_pixels + p + 1)-th differential vector of
\* the payload (gain-major, then pixel order) and the cursor ends behind the
\* last one; with zero suppression every pixel outside the listed ranges is
\* all-zero in every gain.
C15_TensorShape ==
    (cls = "SimTelTelADCSamp" /\ phase = "parsed") =>
        LET sizes == read_from(<<"l", "h", "h">>, View(payload, 0))
            num_pixels == sizes.val[1]
            num_gains == sizes.val[2]
            num_samples == sizes.val[3]
            list_size == read_utf8_like_signed_int(sizes)
            ranges == read_pixel_ranges(list_size, list_size.val)
        IN /\ DOMAIN result = 0..(num_gains - 1)
           /\ \A g \in 0..(num_gains - 1) :
                 /\ DOMAIN result[g] = 0..(num_pixels - 1)
                 /\ \A p \in 0..(num_pixels - 1) :
                       /\ DOMAIN result[g][p] = 0..(num_samples - 1)
                       /\ \A j \in 0..(num_samples - 1) : result[g][p][j] \in 0..65535
           /\ obj.zero_sup_mode = 0 =>
                 /\ \A g \in 0..(num_gains - 1) : \A p \in 0..(num_pixels - 1) :
                       result[g][p] =
                          C1_AfterVectors(sizes, g * num_pixels + p + 1, num_samples).val
                 /\ cursor = C1_AfterVectors(sizes, num_gains * num_pixels, num_samples).pos
           /\ obj.zero_sup_mode # 0 =>
                 \A g \in 0..(num_gains - 1) : \A p \in 0..(num_pixels - 1) :
                    (\A k \in 1..Len(ranges.val) :
                        p < ranges.val[k][1] \/ p > ranges.val[k][2]) =>
                       \A j \in 0..(num_samples - 1) : result[g][p][j] = 0

\* two gains of three pixels with two samples each were decoded without zero
\* suppression
C15_Witness ==
    /\ cls = "SimTelTelADCSamp"
    /\ phase = "parsed"
    /\ obj.zero_sup_mode = 0
    /\ payload = EncodeADCSamp(FALSE, 3, 2, 2, <<>>, 1)
    /\ result[1][0] = [j \in 0..1 |-> <<4, 5>>[j + 1]]
    /\ cursor = Len(payload)

(***************************************************************************)
(* SpecShower: a shower of version 1 for every word of result bits, each   *)
(* float of its payload naming its group and its place in the group.       *)
(***************************************************************************)
MaxResultBits == 1023

ShowerPayload(result_bits) ==
    LE16(1) \o LE16(2) \o LE16(3) \o LE32(4)
    \o Flatten([b \in 1..10 |->
                  IF BitAnd(result_bits, Pow2(b - 1)) # 0
                  THEN Flatten([k \in 1..ShowerFloats[b] |-> <<b, k, 0, 64>>])
                  ELSE <<>>])

InitShower ==
    /\ stream = <<>>
    /\ position = 0
    /\ payload_offset = 0
    /\ cls = "SimTelShower"
    /\ header \in {Header(2015, 1, result_bits) : result_bits \in 0..MaxResultBits}
    /\ payload = ShowerPayload(header.id)
    /\ phase = "header"
    /\ cursor = 0
    /\ error = "none"
    /\ obj = NoRecord
    /\ result = NoRecord
    /\ arg = -1

NextShower ==
    \/ EventIOObject_init
    \/ SimTelShower_parse_data_field
    \/ read

SpecShower == InitShower /\ [][NextShower]_vars

\* the fields of the ten flag-gated groups, by bit
C16_Groups ==
    <<<<"Az", "Alt">>, <<"err_dir1", "err_dir2", "err_dir3">>, <<"xc", "yc">>,
      <<"err_core1", "err_core2", "err_core3">>, <<"mscl", "mscw">>,
      <<"err_mscl", "err_mscw">>, <<"energy">>, <<"err_energy">>, <<"xmax">>,
      <<"err_xmax">>>>

C16_BitSet(bits, b) == (bits \div Pow2(b - 1)) % 2 = 1

\* the floats of the groups below group b whose bit is set
RECURSIVE C16_FloatsBelow(_, _)
C16_FloatsBelow(bits, b) ==
    IF b = 1 THEN 0
    ELSE C16_FloatsBelow(bits, b - 1)
         + (IF C16_BitSet(bits, b - 1) THEN Len(C16_Groups[b - 1]) ELSE 0)

\* C16: a Shower v1 record holds result_bits and the four fields of the
\* 10-byte prefix, and the fields of a flag-gated group exactly when the
\* group's bit (0x01 .. 0x200) is set in header.id; the groups are read in
\* ascending bit order behind the prefix, each float from the four bytes that
\* follow the floats of the set groups before it; a clear bit takes no bytes.
C16_FlagGatedGroups ==
    (cls = "SimTelShower" /\ header.version = 1 /\ phase \in {"parsed", "raised"}) =>
        /\ phase = "parsed"
        /\ DOMAIN result =
              {"result_bits", "num_trg", "num_read", "num_img", "img_pattern"}
              \cup UNION {{C16_Groups[b][k] : k \in 1..Len(C16_Groups[b])} :
                             b \in {c \in 1..10 : C16_BitSet(header.id, c)}}
        /\ result.result_bits = header.id
        /\ result.num_trg = I16(BytesAt(payload, 0, 2))
        /\ result.num_read = I16(BytesAt(payload, 2, 2))
        /\ result.num_img = I16(BytesAt(payload, 4, 2))
        /\ result.img_pattern = I32(BytesAt(payload, 6, 4))
        /\ \A b \in 1..10 : C16_BitSet(header.id, b) =>
              \A k \in 1..Len(C16_Groups[b]) :
                 result[C16_Groups[b][k]] =
                    BytesAt(payload, 10 + 4 * (C16_FloatsBelow(header.id, b) + k - 1), 4)
        /\ cursor = 10 + 4 * C16_FloatsBelow(header.id, 11)

\* a shower with the bits 0x02, 0x08, 0x20, 0x80 and 0x200 set and the others
\* clear was parsed to the end of its payload
C16_Witness ==
    /\ cls = "SimTelShower"
    /\ header = Header(2015, 1, 682)
    /\ phase = "parsed"
    /\ "err_xmax" \in DOMAIN result
    /\ "xmax" \notin DOMAIN result
    /\ result.err_energy = <<8, 1, 0, 64>>
    /\ cursor = Len(payload)

\* the bytes the part parsers of the set bits among 0x01 .. 0x40 take from a
\* monitoring block whose four sizes are 1 and whose temperature counts are 0
C18_PartBytes(what) ==
    LET taken == [b \in 1..7 |->
                    IF (what \div Pow2(b - 1)) % 2 = 1 THEN TelMoniPartBytes[b] ELSE 0]
    IN taken[1] + taken[2] + taken[3] + taken[4] + taken[5] + taken[6] + taken[7]

\* C18: for every 16-bit what = (header.id & 0xffff00) >> 8, parsing a TelMoni
\* v0 object returns a record: the part parsers of the set bits among
\* 0x01 .. 0x40 run in ascending order and take their bytes, clear bits take
\* none, and bit 0x80 and the bits above it neither make the parser fail nor
\* make it read anything.
C18_WhatBits ==
    (cls = "SimTelTelMoni" /\ header.version = 0 /\ phase \in {"parsed", "raised"}) =>
        /\ phase = "parsed"
        /\ result.what = (header.id \div 256) % 65536
        /\ cursor = 24 + C18_PartBytes(result.what)
        /\ ("status_time" \in DOMAIN result) <=> (result.what % 2 = 1)
        /\ ("daq_conf" \in DOMAIN result) <=> ((result.what \div 64) % 2 = 1)

\* C20: a PixelList v0 record has code * 1000000 + telescope = header.id with
\* 0 <= telescope < 1000000, pixels is the 16-bit count that opens the
\* payload, and pixel_list has exactly that many entries; the parser returns
\* such a record for every count, zero included.
C20_PixelListCount ==
    (cls = "SimTelPixelList" /\ header.version = 0 /\ phase \in {"parsed", "raised"}) =>
        /\ phase = "parsed"
        /\ result.code * 1000000 + result.telescope = header.id
        /\ result.telescope \in 0..999999
        /\ result.pixels = I16(BytesAt(payload, 0, 2))
        /\ Len(result.pixel_list) = result.pixels

\* C19: what parse_data_field returns (or raises) and where it leaves the
\* cursor do not depend on the cursor at entry: called after earlier reads or
\* a second time, it gives what it gives when called with the cursor at the
\* payload start.
C19_CursorIndependent ==
    [][(SimTelCentEvent_parse_data_field \/ SimTelTelEvtHead_parse_data_field) =>
        LET fresh == IF cls = "SimTelCentEvent"
                     THEN CentEvent_parse(header, View(payload, 0))
                     ELSE TelEvtHead_parse(header, View(payload, 0))
        IN /\ error' = fresh.err
           /\ result' = (IF Ok(fresh) THEN fresh.val ELSE NoRecord)
           /\ cursor' = fresh.pos]_vars

\* C11: for every valid object of a supported type and version, after
\* parse_data_field the cursor lies between 0 and the payload length, and
\* the parser has asked for no byte beyond the payload: every array is sized
\* by its own count, so no read runs off the end.
C11_CursorWithinPayload ==
    (/\ header.type \in DOMAIN C8_ExactVersion
     /\ header.version = C8_ExactVersion[header.type]
     /\ phase \in {"parsed", "raised"}) =>
        /\ 0 <= cursor
        /\ cursor <= Len(payload)
        /\ error \notin {"UnexpectedEndOfStream", "OversizedArray"}

\* C17: in a PixelDisable v0 record trigger_disabled has num_trig_disabled
\* entries and HV_disabled has num_HV_disabled entries, for all pairs of
\* counts, equal or not, zero or not; the parser returns a record for each.
C17_DisabledCounts ==
    (cls = "SimTelPixelDisable" /\ header.version = 0 /\ phase \in {"parsed", "raised"}) =>
        /\ phase = "parsed"
        /\ Len(result.trigger_disabled) = result.num_trig_disabled
        /\ Len(result.HV_disabled) = result.num_HV_disabled

====
